---------------------------- MODULE Spec2Model ----------------------------
(***************************************************************************)
(* tui-gradient-block: border-segment synthesis, gradient colour mapping   *)
(* and the render pass of the gradient block widget.                       *)
(*                                                                         *)
(* Two iterations of the widget live in the sources and both are modelled: *)
(*   "lib"   : TuiGradientblock of src/src/lib.rs                          *)
(*   "block" : GradientBlock of src/src/gradient_block.rs,                 *)
(*             src/src/gradientblockfunctions.rs and src/src/types.rs      *)
(*                                                                         *)
(* Glyphs are strings: "tl" "tr" "bl" "br" "h" "v" are the PLAIN glyphs of *)
(* ratatui (top-left, top-right, bottom-left, bottom-right, horizontal,    *)
(* vertical); other strings are glyphs given by the caller.                *)
(* f32 values of the gradient code are exact rationals here: t is the pair *)
(* num/den, and den = 0 is NaN (0.0 / 0.0).  The section index agrees with *)
(* the f32 computation for every text and colour list within the bounds;   *)
(* a blended channel can be one lower in f32 where t is not dyadic.        *)
(***************************************************************************)
EXTENDS Integers, Sequences, FiniteSets, TLC

VARIABLES
    pc,               \* position of the caller: which call comes next
    impl,             \* "lib" or "block": the iteration of the widget in use
    text,             \* create_gradient_text: the text argument
    colors,           \* create_gradient_text: the colors argument
    factor,           \* create_gradient_text: the factor argument
    gradient_text,    \* create_gradient_text: what the call produced
    interpolated,     \* interpolate_color: the last call and what it returned
    repeat_count,     \* render_fill: the repeat count of its fill string
    area,             \* the block's Rect
    split_segments,   \* the block's SplitBorderSegments (a set of edges)
    border_symbols,   \* the block's BorderSymbols (Option<char> fields)
    border_segments,  \* the block's BorderSegments (twelve BorderSegment)
    fill,             \* the block's Fill
    top_titles,       \* the block's top titles
    bottom_titles,    \* the block's bottom titles
    buf,              \* the Buffer the render pass writes to
    buf_before,       \* the Buffer as it was when the render pass began
    panic             \* None, or the message of the panic that ended the thread

vars == <<pc, impl, text, colors, factor, gradient_text, interpolated,
          repeat_count, area, split_segments,
          border_symbols, border_segments, fill, top_titles, bottom_titles,
          buf, buf_before, panic>>

gradient_vars == <<text, colors, factor, gradient_text, interpolated,
                   repeat_count>>
block_vars == <<area, split_segments, border_symbols, border_segments, fill,
                top_titles, bottom_titles>>
buffer_vars == <<buf, buf_before>>

---------------------------------------------------------------------------
(* Bounds of the model *)

MaxTextLen == 3
MaxColors == 3
MaxWidth == 5
MaxHeight == 5
MaxOrigin == 1
MaxDen == 3

---------------------------------------------------------------------------
(* Values *)

U16Max == 65535

None == "None"

\* Option of a compound value (String, (Vec<(u8, u8, u8)>, f32)): the empty
\* sequence is None, the sequence of one value is Some of it
NoValue == <<>>
Some(v) == <<v>>
unwrap(o) == o[1]

\* Option<(Vec<(u8, u8, u8)>, f32)>
NoGradient == NoValue
SomeGradient(cols, f) == Some([colors |-> cols, factor |-> f])

Min(a, b) == IF a < b THEN a ELSE b

RECURSIVE Pow(_, _)
Pow(b, e) == IF e = 0 THEN 1 ELSE b * Pow(b, e - 1)

\* u16::saturating_sub, usize::saturating_sub
saturating_sub(a, b) == IF a < b THEN 0 ELSE a - b

\* u16::saturating_add
saturating_add(a, b) == IF a + b > U16Max THEN U16Max ELSE a + b

Repeat(ch, k) == [i \in 1..k |-> ch]

\* The characters of the texts: a narrow one, a wide one (two columns) and
\* a zero-width one.
Chars == {"A", "W", "Z"}

\* c.width().unwrap_or(1)
char_width(c) == CASE c = "W" -> 2
                   [] c = "Z" -> 0
                   [] OTHER -> 1

Red == <<255, 0, 0>>
Blue == <<0, 0, 255>>
Grey == <<10, 10, 10>>
Rgb == {Red, Blue, Grey}

Factors == {1, 2}

SeqsUpTo(S, n) == UNION {[1..k -> S] : k \in 0..n}

---------------------------------------------------------------------------
(* Gradient colour mapping *)

\* One channel blended from the end colour towards the start colour
lerp_from_end(s, e, t, f) ==
    IF t.den = 0 THEN 0
    ELSE LET tp == Pow(t.num, f)
             dp == Pow(t.den, f)
         IN ((dp - tp) * e + tp * s) \div dp

\* One channel of interpolate_color: the f32 blend cast to u8 (`as u8`
\* truncates; NaN casts to 0).
lerp(s, e, t, f) ==
    IF t.den = 0 THEN 0
    ELSE LET tp == Pow(t.num, f)
             dp == Pow(t.den, f)
         IN ((dp - tp) * s + tp * e) \div dp

interpolate_color(start, end, t, f) ==
    <<lerp(start[1], end[1], t, f),
      lerp(start[2], end[2], t, f),
      lerp(start[3], end[3], t, f)>>

RECURSIVE accumulated_width(_, _)
\* the sum of the widths of the first k characters of txt
accumulated_width(txt, k) ==
    IF k = 0 THEN 0
    ELSE accumulated_width(txt, k - 1) + char_width(txt[k])

total_width(txt) == accumulated_width(txt, Len(txt))

\* pos.ceil() as usize in the place of pos.floor()
section_index_ceil(acc, total, n) ==
    IF total = 0 THEN 0 ELSE (acc * (n - 1) + total - 1) \div total

\* pos.floor() as usize, for pos = (acc / total) * (n - 1); NaN casts to 0
section_index(acc, total, n) ==
    IF total = 0 THEN 0 ELSE (acc * (n - 1)) \div total

\* t = pos - section_index
section_t(acc, total, n) ==
    IF total = 0 THEN [num |-> 0, den |-> 0]
    ELSE [num |-> acc * (n - 1) - section_index(acc, total, n) * total,
          den |-> total]

\* The colour of the i-th character (1-based) of txt
gradient_color(txt, cols, f, i) ==
    LET n == Len(cols)
        total == total_width(txt)
        acc == accumulated_width(txt, i - 1)
        sec == section_index(acc, total, n)
        next == Min(sec + 1, n - 1)
    IN interpolate_color(cols[sec + 1], cols[next + 1],
                         section_t(acc, total, n), f)

PanicResult == [panic |-> TRUE, spans |-> <<>>]

\* The colour-count test with its limit off by one: a single colour passes
InsufficientColors_below_one(cols) == Len(cols) < 1

\* colors.len() < 2
InsufficientColors(cols) == Len(cols) < 2

\* The loop run over the characters that take a column only: zero-width
\* characters get no cell
create_gradient_text_visible_only(txt, cols, f) ==
    LET vis == SelectSeq(txt, LAMBDA c : char_width(c) > 0)
    IN IF InsufficientColors(cols) THEN PanicResult
       ELSE [panic |-> FALSE,
             spans |-> [i \in 1..Len(vis) |->
                           [content |-> vis[i],
                            fg |-> gradient_color(vis, cols, f, i)]]]

\* GradientBlock::create_gradient_text: the colour check comes first.
create_gradient_text_block(txt, cols, f) ==
    IF InsufficientColors(cols) THEN PanicResult
    ELSE [panic |-> FALSE,
          spans |-> [i \in 1..Len(txt) |->
                        [content |-> txt[i],
                         fg |-> gradient_color(txt, cols, f, i)]]]

\* With too few colours the text comes back uncoloured instead of the panic
create_gradient_text_lib_uncoloured(txt, cols, f) ==
    [panic |-> FALSE,
     spans |-> [i \in 1..Len(txt) |->
                   [content |-> txt[i],
                    fg |-> IF Len(cols) < 2 THEN <<>>
                           ELSE gradient_color(txt, cols, f, i)]]]

\* TuiGradientblock::create_gradient_text: widths first, then the colour
\* check, then one pass for the colours and one zipping them with the text.
create_gradient_text_lib(txt, cols, f) ==
    LET num_colors == Len(cols)
    IN IF num_colors < 2 THEN PanicResult
       ELSE LET gradient_colors ==
                    [i \in 1..Len(txt) |-> gradient_color(txt, cols, f, i)]
            IN [panic |-> FALSE,
                spans |-> [i \in 1..Min(Len(txt), Len(gradient_colors)) |->
                              [content |-> txt[i],
                               fg |-> gradient_colors[i]]]]

create_gradient_text(which, txt, cols, f) ==
    IF which = "lib" THEN create_gradient_text_lib(txt, cols, f)
    ELSE create_gradient_text_block(txt, cols, f)

---------------------------------------------------------------------------
(* The block: area, palette, segments *)

Edges == {"LEFT", "RIGHT", "TOP", "BOTTOM"}

\* SplitBorderSegments::ALL, SplitBorderSegments::NONE
ALL == Edges
NONE == {}

Corners == {"top_left", "top_right", "bottom_left", "bottom_right"}

SymbolFields ==
    Corners \cup
    {"top_center", "bottom_center", "left_center", "right_center",
     "top_horizontal", "bottom_horizontal", "left_vertical", "right_vertical",
     "top_horizontal_right", "bottom_horizontal_right",
     "top_horizontal_left", "bottom_horizontal_left",
     "top_vertical_right", "bottom_vertical_right",
     "top_vertical_left", "bottom_vertical_left"}

FullSegments == {"top_ln", "bottom_ln", "left_ln", "right_ln"}

HorizontalHalves == {"top_horizontal_left_ln", "top_horizontal_right_ln",
                     "bottom_horizontal_left_ln", "bottom_horizontal_right_ln"}

VerticalHalves == {"top_vertical_left_ln", "top_vertical_right_ln",
                   "bottom_vertical_left_ln", "bottom_vertical_right_ln"}

SegmentNames == FullSegments \cup HorizontalHalves \cup VerticalHalves

\* Rect::left, Rect::right, Rect::top, Rect::bottom of ratatui
left(a) == a.x
right(a) == saturating_add(a.x, a.width)
top(a) == a.y
bottom(a) == saturating_add(a.y, a.height)

\* The glyph a caller passes to a symbol setter
CustomGlyph == "x"

\* GradientBlock::new, TuiGradientblock::new: every palette field is None
EmptySymbols == [f \in SymbolFields |-> None]

\* BorderSegment::new
BorderSegment_new(which, x, y, is_vertical) ==
    [segment_text |-> <<>>,
     gradient |-> IF which = "lib" THEN NoGradient
                  ELSE [gradient_list |-> <<>>, factor |-> 0],
     should_use_gradient |-> FALSE,
     should_be_rendered |-> FALSE,
     is_vertical |-> is_vertical,
     x |-> x,
     y |-> y]

\* The two builds of the crate: with overflow checks (a u16 subtraction
\* below zero panics) and without (it wraps).
Builds == {"debug", "release"}

u16_sub_overflows(a, b) == a < b

\* a - b on u16 in a build without overflow checks
u16_wrapping_sub(a, b) == IF a < b THEN a - b + U16Max + 1 ELSE a - b

\* BorderSegments::new: the anchors of the twelve segments.  right() - 1 and
\* bottom() - 1 are plain u16 subtractions.
BorderSegments_new(which, a) ==
    LET r1 == u16_wrapping_sub(right(a), 1)
        b1 == u16_wrapping_sub(bottom(a), 1)
        mid == (a.height + 1) \div 2
        seg(x, y, v) == BorderSegment_new(which, x, y, v)
    IN [s \in SegmentNames |->
          CASE s = "top_horizontal_left_ln" -> seg(left(a), top(a), FALSE)
            [] s = "top_horizontal_right_ln" -> seg(right(a) \div 2, top(a), FALSE)
            [] s = "bottom_horizontal_left_ln" -> seg(left(a), b1, FALSE)
            [] s = "bottom_horizontal_right_ln" -> seg(right(a) \div 2, b1, FALSE)
            [] s = "top_vertical_left_ln" -> seg(left(a), top(a), TRUE)
            [] s = "top_vertical_right_ln" -> seg(r1, top(a), TRUE)
            [] s = "bottom_vertical_left_ln" -> seg(left(a), mid, TRUE)
            [] s = "bottom_vertical_right_ln" -> seg(r1, mid, TRUE)
            [] s = "top_ln" -> seg(left(a), top(a), FALSE)
            [] s = "bottom_ln" -> seg(left(a), b1, FALSE)
            [] s = "left_ln" -> seg(left(a), top(a), TRUE)
            [] s = "right_ln" -> seg(r1, top(a), TRUE)]

\* BorderSegments::new panics in a build with overflow checks
BorderSegments_new_overflows(a) ==
    u16_sub_overflows(right(a), 1) \/ u16_sub_overflows(bottom(a), 1)

---------------------------------------------------------------------------
(* set_lines: the texts and the enable flags of the twelve segments *)

\* The palette field ignored: always the default glyph
get_symbol_default_only(field, default) == default

\* get_symbol!: $field.unwrap_or($default)
get_symbol(field, default) == IF field = None THEN default ELSE field

\* The glyphs set_lines and set_lns resolve from the palette: a field that
\* is None falls back to a more general field or to the PLAIN glyph.
resolved_symbols(bs) ==
    LET top_horizontal == get_symbol(bs.top_horizontal, "h")
        left_vertical == get_symbol(bs.left_vertical, "v")
        bottom_horizontal == get_symbol(bs.bottom_horizontal, "h")
        right_vertical == get_symbol(bs.right_vertical, "v")
    IN [top_horizontal |-> top_horizontal,
        left_vertical |-> left_vertical,
        bottom_horizontal |-> bottom_horizontal,
        right_vertical |-> right_vertical,
        top_center |-> get_symbol(bs.top_center, top_horizontal),
        bottom_center |-> get_symbol(bs.bottom_center, bottom_horizontal),
        left_center |-> get_symbol(bs.left_center, left_vertical),
        right_center |-> get_symbol(bs.right_center, right_vertical),
        top_right |-> get_symbol(bs.top_right, "tr"),
        top_left |-> get_symbol(bs.top_left, "tl"),
        bottom_right |-> get_symbol(bs.bottom_right, "br"),
        bottom_left |-> get_symbol(bs.bottom_left, "bl"),
        top_horizontal_right |->
            get_symbol(bs.top_horizontal_right, top_horizontal),
        bottom_horizontal_right |->
            get_symbol(bs.bottom_horizontal_right, bottom_horizontal),
        top_horizontal_left |->
            get_symbol(bs.top_horizontal_left, top_horizontal),
        bottom_horizontal_left |->
            get_symbol(bs.bottom_horizontal_left, bottom_horizontal),
        top_vertical_right |->
            get_symbol(bs.top_vertical_right, right_vertical),
        bottom_vertical_right |->
            get_symbol(bs.bottom_vertical_right, right_vertical),
        top_vertical_left |->
            get_symbol(bs.top_vertical_left, left_vertical),
        bottom_vertical_left |->
            get_symbol(bs.bottom_vertical_left, left_vertical)]

\* create_segment!: start, middle1 x repeat1, middle2, middle3 x repeat2, end
create_segment(start, middle1, repeat1, middle2, middle3, repeat2, end) ==
    <<start>> \o Repeat(middle1, repeat1) \o <<middle2>>
              \o Repeat(middle3, repeat2) \o <<end>>

\* create_segment! with four arguments, and format!("{}{}{}", ..) of
\* TuiGradientblock::set_lines: start, middle x repeat, end
create_half_segment(start, middle, repeat, end) ==
    <<start>> \o Repeat(middle, repeat) \o <<end>>

(* --- TuiGradientblock::set_lines (lib.rs) --- *)

\* (area.width as usize - 1) / 2 - 1, with plain usize subtractions: below
\* zero a build with overflow checks panics at the subtraction, and one
\* without wraps to a count of at least 2^63 - 2, with which String::repeat
\* panics (capacity overflow).  Either way set_lines panics.
lib_half_rep_overflows(w) == w < 1 \/ (w - 1) \div 2 < 1

lib_half_rep(w) == (w - 1) \div 2 - 1

lib_top_vert_rep(h) == saturating_sub((h + 1) \div 2, 2)
lib_bottom_vert_rep(h) == saturating_sub(h \div 2, 1)

lib_top_ln_left_rep(w) == saturating_sub((w + 1) \div 2, 2)
lib_bottom_ln_left_rep(w) == saturating_sub((w + 1) \div 2, 1)
lib_hor_right_rep(w) == saturating_sub(w \div 2, 1)

\* The text TuiGradientblock::set_lines formats for segment s
lib_text(s, bs, a) ==
    LET g == resolved_symbols(bs)
        w == a.width
        h == a.height
    IN CASE s = "top_horizontal_right_ln" ->
            create_half_segment(g.top_center, g.top_horizontal_right,
                                lib_half_rep(w), g.top_right)
        [] s = "top_horizontal_left_ln" ->
            create_half_segment(g.top_left, g.top_horizontal_left,
                                lib_half_rep(w), g.top_center)
        [] s = "bottom_horizontal_left_ln" ->
            create_half_segment(g.bottom_left, g.bottom_horizontal_left,
                                lib_half_rep(w), g.bottom_center)
        [] s = "bottom_horizontal_right_ln" ->
            create_half_segment(g.bottom_center, g.bottom_horizontal_right,
                                lib_half_rep(w), g.bottom_right)
        [] s = "top_vertical_right_ln" ->
            create_half_segment(g.top_right, g.top_vertical_right,
                                lib_top_vert_rep(h), g.right_center)
        [] s = "top_vertical_left_ln" ->
            create_half_segment(g.top_left, g.top_vertical_left,
                                lib_top_vert_rep(h), g.left_center)
        [] s = "bottom_vertical_left_ln" ->
            create_half_segment(g.left_center, g.bottom_vertical_left,
                                lib_bottom_vert_rep(h), g.bottom_left)
        [] s = "bottom_vertical_right_ln" ->
            create_half_segment(g.right_center, g.bottom_vertical_right,
                                lib_bottom_vert_rep(h), g.bottom_right)
        [] s = "top_ln" ->
            create_segment(g.top_left, g.top_horizontal_left,
                           lib_top_ln_left_rep(w), g.top_center,
                           g.top_horizontal_right, lib_hor_right_rep(w),
                           g.top_right)
        [] s = "bottom_ln" ->
            create_segment(g.bottom_left, g.bottom_horizontal_left,
                           lib_bottom_ln_left_rep(w), g.bottom_center,
                           g.bottom_horizontal_right, lib_hor_right_rep(w),
                           g.bottom_right)
        [] s = "right_ln" ->
            create_segment(g.top_right, g.top_vertical_right,
                           lib_top_vert_rep(h), g.right_center,
                           g.bottom_vertical_right, lib_bottom_vert_rep(h),
                           g.bottom_right)
        [] s = "left_ln" ->
            create_segment(g.top_left, g.top_vertical_left,
                           lib_top_vert_rep(h), g.left_center,
                           g.bottom_vertical_left, lib_bottom_vert_rep(h),
                           g.bottom_left)

\* The edge a segment lies on
EdgeOf(s) ==
    CASE s \in {"top_ln", "top_horizontal_left_ln", "top_horizontal_right_ln"}
           -> "TOP"
      [] s \in {"bottom_ln", "bottom_horizontal_left_ln",
                "bottom_horizontal_right_ln"} -> "BOTTOM"
      [] s \in {"left_ln", "top_vertical_left_ln", "bottom_vertical_left_ln"}
           -> "LEFT"
      [] OTHER -> "RIGHT"

\* TuiGradientblock::set_lines, the assignments after the texts: the four
\* full segments get text and flag; a selected edge turns its full segment
\* off and sets text and flag of its halves; NONE turns the horizontal
\* halves off.  What no branch assigns keeps its value.
lib_set_lines(segs, bs, a, split) ==
    LET txt(s) == lib_text(s, bs, a)
    IN [s \in SegmentNames |->
          IF s \in FullSegments
          THEN [segs[s] EXCEPT !.segment_text = txt(s),
                               !.should_be_rendered = EdgeOf(s) \notin split]
          ELSE IF EdgeOf(s) \in split
          THEN [segs[s] EXCEPT !.segment_text = txt(s),
                               !.should_be_rendered = TRUE]
          ELSE IF split = NONE /\ s \in HorizontalHalves
          THEN [segs[s] EXCEPT !.should_be_rendered = FALSE]
          ELSE segs[s]]

(* --- GradientBlock::set_lns (gradientblockfunctions.rs) --- *)

top_hor_left_rep(w) == saturating_sub(saturating_sub(w, 1) \div 2, 1)
top_hor_right_rep(w) == saturating_sub(saturating_sub(w, 1) \div 2, 2)
bottom_hor_left_rep(w) == saturating_sub((w + 1) \div 2, 1)
bottom_hor_right_rep(w) == saturating_sub(w \div 2, 2)
top_vert_left_rep(h) == saturating_sub((h + 1) \div 2, 2)
bottom_vert_left_rep(h) == saturating_sub(h \div 2, 1)

\* The text GradientBlock::set_lns builds for segment s: a half of a split
\* edge, or a full segment of an unsplit block
block_text(s, bs, a) ==
    LET g == resolved_symbols(bs)
        w == a.width
        h == a.height
    IN CASE s = "top_horizontal_left_ln" ->
            create_half_segment(g.top_left, g.top_horizontal_left,
                                top_hor_left_rep(w), g.top_center)
        [] s = "top_horizontal_right_ln" ->
            create_half_segment(g.top_center, g.top_horizontal_right,
                                top_hor_right_rep(w), g.top_right)
        [] s = "bottom_horizontal_left_ln" ->
            create_half_segment(g.bottom_left, g.bottom_horizontal_left,
                                top_hor_left_rep(w), g.bottom_center)
        [] s = "bottom_horizontal_right_ln" ->
            create_half_segment(g.bottom_center, g.bottom_horizontal_right,
                                top_hor_right_rep(w), g.bottom_right)
        [] s = "top_vertical_left_ln" ->
            create_half_segment(g.top_left, g.top_vertical_left,
                                top_vert_left_rep(h), g.left_center)
        [] s = "bottom_vertical_left_ln" ->
            create_half_segment(g.left_center, g.bottom_vertical_left,
                                bottom_vert_left_rep(h), g.bottom_left)
        [] s = "top_vertical_right_ln" ->
            create_half_segment(g.top_right, g.top_vertical_right,
                                top_vert_left_rep(h), g.right_center)
        [] s = "bottom_vertical_right_ln" ->
            create_half_segment(g.right_center, g.bottom_vertical_right,
                                bottom_vert_left_rep(h), g.bottom_right)
        [] s = "top_ln" ->
            create_segment(g.top_left, g.top_horizontal_left,
                           bottom_hor_left_rep(w), g.top_center,
                           g.top_horizontal_right, bottom_hor_right_rep(w),
                           g.top_right)
        [] s = "bottom_ln" ->
            create_segment(g.bottom_left, g.bottom_horizontal_left,
                           bottom_hor_left_rep(w), g.bottom_center,
                           g.bottom_horizontal_right, bottom_hor_right_rep(w),
                           g.bottom_right)
        [] s = "left_ln" ->
            create_segment(g.top_left, g.top_vertical_left,
                           top_vert_left_rep(h), g.left_center,
                           g.bottom_vertical_left, bottom_vert_left_rep(h),
                           g.bottom_left)
        [] s = "right_ln" ->
            create_segment(g.top_right, g.top_vertical_right,
                           top_vert_left_rep(h), g.right_center,
                           g.bottom_vertical_right, bottom_vert_left_rep(h),
                           g.bottom_right)

\* set_segment!: the flag and the text of one segment
set_segment(seg, txt, render) ==
    [seg EXCEPT !.should_be_rendered = render, !.segment_text = txt]

\* GradientBlock::set_lns: a selected edge empties and turns off its full
\* segment and sets its two halves; an empty selection sets the four full
\* segments and empties and turns off the four horizontal halves.  What no
\* branch assigns keeps its value.
block_set_lns(segs, bs, a, split) ==
    LET txt(s) == block_text(s, bs, a)
    IN [s \in SegmentNames |->
          IF s \in FullSegments
          THEN IF EdgeOf(s) \in split THEN set_segment(segs[s], <<>>, FALSE)
               ELSE IF split = {} THEN set_segment(segs[s], txt(s), TRUE)
               ELSE segs[s]
          ELSE IF EdgeOf(s) \in split THEN set_segment(segs[s], txt(s), TRUE)
          ELSE IF split = {} /\ s \in HorizontalHalves
          THEN set_segment(segs[s], <<>>, FALSE)
          ELSE segs[s]]

---------------------------------------------------------------------------
(* State before any call, and what a panic leaves *)

Impls == {"lib", "block"}

\* The message of create_gradient_text's panic (predefined::consts)
ERROR_MESSAGE == "Use at least two colors"

SubtractOverflow == "attempt to subtract with overflow"

Rects(xs, ys, ws, hs) ==
    {[x |-> x, y |-> y, width |-> w, height |-> h] :
        x \in xs, y \in ys, w \in ws, h \in hs}

\* Fill of TuiGradientblock::new
NoFill == [fill_string |-> NoValue, gradient |-> NoGradient]

NothingYet ==
    /\ impl = None
    /\ text = <<>> /\ colors = <<>> /\ factor = 1 /\ gradient_text = None
    /\ interpolated = NoValue
    /\ repeat_count = NoValue
    /\ area = [x |-> 0, y |-> 0, width |-> 0, height |-> 0]
    /\ split_segments = {}
    /\ border_symbols = EmptySymbols
    /\ border_segments = <<>>
    /\ fill = NoFill
    /\ top_titles = <<>> /\ bottom_titles = <<>>
    /\ buf = <<>> /\ buf_before = <<>>
    /\ panic = None

\* panic!: the thread unwinds out of every call in progress
Panics(message) ==
    /\ panic' = message
    /\ pc' = "dead"

---------------------------------------------------------------------------
(* Specification of the gradient colour mapping as a function *)

InitGradient ==
    /\ pc = "call"
    /\ impl \in Impls
    /\ text \in SeqsUpTo(Chars, MaxTextLen)
    /\ colors \in SeqsUpTo(Rgb, MaxColors)
    /\ factor \in Factors
    /\ gradient_text = None
    /\ interpolated = NoValue
    /\ repeat_count = NoValue
    /\ area = [x |-> 0, y |-> 0, width |-> 0, height |-> 0]
    /\ split_segments = {}
    /\ border_symbols = EmptySymbols
    /\ border_segments = <<>>
    /\ fill = NoFill
    /\ top_titles = <<>> /\ bottom_titles = <<>>
    /\ buf = <<>> /\ buf_before = <<>>
    /\ panic = None

\* A call of create_gradient_text(&text, &colors, &factor)
CreateGradientText ==
    /\ pc = "call"
    /\ LET r == create_gradient_text(impl, text, colors, factor)
       IN IF r.panic
          THEN /\ Panics(ERROR_MESSAGE)
               /\ UNCHANGED gradient_text
          ELSE /\ gradient_text' = r.spans
               /\ pc' = "returned"
               /\ UNCHANGED panic
    /\ UNCHANGED <<impl, text, colors, factor, interpolated, repeat_count,
                   block_vars, buffer_vars>>

NextGradient == CreateGradientText

SpecGradient == InitGradient /\ [][NextGradient]_vars

---------------------------------------------------------------------------
(* Gradient colour mapping: the claims, checked under SpecGradient *)

\* C1: a call of create_gradient_text with fewer than two colours fails
\* with the insufficient-colours error for every text, the empty text
\* included, and never returns a list of styled cells.
C1_FewColorsFail ==
    (pc # "call" /\ Len(colors) < 2) =>
        /\ pc = "dead"
        /\ panic = ERROR_MESSAGE
        /\ gradient_text = None

\* the call has failed on the empty text with a single colour
C1_Witness ==
    /\ pc = "dead"
    /\ panic = ERROR_MESSAGE
    /\ text = <<>>
    /\ Len(colors) = 1

\* C8: with at least two colours, create_gradient_text returns one styled
\* cell per character of the text, the i-th cell carrying the i-th
\* character; for the empty text it returns the empty sequence and no error.
C8_OneCellPerChar ==
    (pc # "call" /\ Len(colors) >= 2) =>
        /\ pc = "returned"
        /\ panic = None
        /\ Len(gradient_text) = Len(text)
        /\ \A i \in 1..Len(text) : gradient_text[i].content = text[i]
        /\ text = <<>> => gradient_text = <<>>

\* the call has returned for a text with a wide and a zero-width character
C8_Witness ==
    /\ pc = "returned"
    /\ impl = "block"
    /\ Len(colors) >= 2
    /\ \E i, j \in 1..Len(text) : text[i] = "W" /\ text[j] = "Z"
    /\ Len(gradient_text) = Len(text)

\* C16: for a text of n >= 2 single-width characters, at least two colours
\* and factor 1, the first cell gets the first colour and the last cell the
\* last colour: [Red, Blue] on a text of three gives Red, about (128, 0, 128)
\* and Blue.
C16_EndsGetEndColours ==
    (/\ pc = "returned"
     /\ Len(colors) >= 2
     /\ factor = 1
     /\ Len(text) >= 2
     /\ \A i \in 1..Len(text) : char_width(text[i]) = 1) =>
        /\ gradient_text[1].fg = colors[1]
        /\ gradient_text[Len(text)].fg = colors[Len(colors)]

\* The section index create_gradient_text computes for the i-th character
\* of the text of the call
SectionOf(i) ==
    section_index(accumulated_width(text, i - 1), total_width(text),
                  Len(colors))

\* C26: for every text, wide and zero-width characters included, and every
\* gradient of n >= 2 colours, the section index computed for each character
\* lies in [0, n-2], so that both colour lookups (section and section + 1)
\* stay inside the colour list.
C26_SectionBelowLast ==
    pc = "returned" =>
        \A i \in 1..Len(text) : SectionOf(i) \in 0..(Len(colors) - 2)

\* C26 as amended: the section index of each character lies in [0, n-1]; it
\* is n-1 only for a character that has the whole width of the text before
\* it (a zero-width character at the end), whose second lookup is clamped
\* to n-1 and which gets the last colour; for every other character it lies
\* in [0, n-2].  Both lookups stay inside the colour list.
C26_SectionWithinColours ==
    pc = "returned" =>
        \A i \in 1..Len(text) :
            LET n == Len(colors)
                sec == SectionOf(i)
            IN /\ sec \in 0..(n - 1)
               /\ Min(sec + 1, n - 1) \in 0..(n - 1)
               /\ sec = n - 1 =>
                     /\ accumulated_width(text, i - 1) = total_width(text)
                     /\ char_width(text[i]) = 0
                     /\ gradient_text[i].fg = colors[n]

\* the call has returned for a text that ends with a zero-width character,
\* which has the last of three colours
C26_Witness ==
    /\ pc = "returned"
    /\ text = <<"A", "W", "Z">>
    /\ Len(colors) = 3
    /\ SectionOf(3) = 2
    /\ gradient_text[3].fg = colors[3]

---------------------------------------------------------------------------
(* Specification of interpolate_color as a function *)

\* The positions t of the calls: the fractions n/d of [0, 1] with d up to
\* MaxDen, 0 and 1 among them
Ts == UNION {{[num |-> n, den |-> d] : n \in 0..d} : d \in 1..MaxDen}

InitInterpolate ==
    /\ pc = "call"
    /\ NothingYet

\* A call of interpolate_color(start, end, t, factor)
InterpolateColor ==
    /\ pc \in {"call", "returned"}
    /\ \E start \in Rgb, end \in Rgb, t \in Ts, f \in Factors :
          interpolated' = Some([start |-> start, end |-> end, t |-> t,
                                factor |-> f,
                                color |-> interpolate_color(start, end, t, f)])
    /\ pc' = "returned"
    /\ UNCHANGED <<impl, text, colors, factor, gradient_text, repeat_count,
                   block_vars, buffer_vars, panic>>

NextInterpolate == InterpolateColor

SpecInterpolate == InitInterpolate /\ [][NextInterpolate]_vars

\* every channel of a is within 1 of the same channel of b
Within1(a, b) == \A ch \in 1..3 : a[ch] - b[ch] \in -1..1

\* C17: interpolate_color(A, B, 0, f) returns A and
\* interpolate_color(A, B, 1, f) returns B, each within 1 per channel, for
\* every factor f > 0.
C17_InterpolateEndpoints ==
    interpolated # NoValue =>
        LET call == unwrap(interpolated)
        IN /\ call.factor > 0
           /\ call.t.num = 0 => Within1(call.color, call.start)
           /\ call.t.num = call.t.den => Within1(call.color, call.end)

\* C27: each blended channel is the integer nearest to
\* (1 - t')*start + t'*end, rounded and not truncated, where t' = t^factor:
\* blending the channel values 255 and 0 at t' = 1/2 yields 128.
C27_ChannelsRounded ==
    interpolated # NoValue =>
        LET call == unwrap(interpolated)
            tp == Pow(call.t.num, call.factor)
            dp == Pow(call.t.den, call.factor)
            nearest(s, e) == (2 * ((dp - tp) * s + tp * e) + dp) \div (2 * dp)
        IN \A ch \in 1..3 :
              call.color[ch] = nearest(call.start[ch], call.end[ch])

\* interpolate_color(Red, Blue, 1, 2) has returned Blue
C17_Witness ==
    /\ pc = "returned"
    /\ interpolated # NoValue
    /\ unwrap(interpolated).start = Red
    /\ unwrap(interpolated).end = Blue
    /\ unwrap(interpolated).t = [num |-> 1, den |-> 1]
    /\ unwrap(interpolated).factor = 2
    /\ unwrap(interpolated).color = Blue

---------------------------------------------------------------------------
(* Specification of construction, symbol setters and set_lines *)

Origins == 0..MaxOrigin

LineAreas == Rects(Origins, Origins, 0..MaxWidth, 0..MaxHeight)

\* The palette fields whose setters the caller uses here
SetterFields == {"top_left", "bottom_right", "top_center"}

InitLines ==
    /\ NothingYet
    /\ pc = "start"

\* GradientBlock::new(&area, split_segments) and TuiGradientblock::new
New(which, a, split) ==
    /\ pc = "start"
    /\ \E build \in Builds :
         IF build = "debug" /\ BorderSegments_new_overflows(a)
         THEN /\ Panics(SubtractOverflow)
              /\ UNCHANGED <<impl, block_vars>>
         ELSE /\ impl' = which
              /\ area' = a
              /\ split_segments' = split
              /\ border_symbols' = EmptySymbols
              /\ border_segments' = BorderSegments_new(which, a)
              /\ fill' = NoFill
              /\ top_titles' = <<>>
              /\ bottom_titles' = <<>>
              /\ pc' = "built"
              /\ UNCHANGED panic
    /\ UNCHANGED <<gradient_vars, buffer_vars>>

\* top_left(symb), bottom_right(symb), top_center_symbol(symb), ...:
\* self.border_symbols.<field> = Some(symb)
set_symbol(field, symb) ==
    /\ pc \in {"built", "lined"}
    /\ border_symbols' = [border_symbols EXCEPT ![field] = symb]
    /\ UNCHANGED <<pc, impl, gradient_vars, area, split_segments,
                   border_segments, fill, top_titles, bottom_titles,
                   buffer_vars, panic>>

\* TuiGradientblock::set_lines
set_lines ==
    /\ pc \in {"built", "lined", "resplit"}
    /\ impl = "lib"
    /\ IF lib_half_rep_overflows(area.width)
       THEN /\ Panics(SubtractOverflow)
            /\ UNCHANGED border_segments
       ELSE /\ border_segments' = lib_set_lines(border_segments, border_symbols,
                                                area, split_segments)
            /\ pc' = "lined"
            /\ UNCHANGED panic
    /\ UNCHANGED <<impl, gradient_vars, area, split_segments, border_symbols,
                   fill, top_titles, bottom_titles, buffer_vars>>

\* GradientBlock::set_lines, which is GradientBlock::set_lns
set_lns ==
    /\ pc \in {"built", "lined", "resplit"}
    /\ impl = "block"
    /\ border_segments' = block_set_lns(border_segments, border_symbols,
                                        area, split_segments)
    /\ pc' = "lined"
    /\ UNCHANGED <<impl, gradient_vars, area, split_segments, border_symbols,
                   fill, top_titles, bottom_titles, buffer_vars, panic>>

\* The caller constructs a block of either iteration on some area
LinesNew ==
    /\ pc = "start"
    /\ \E which \in Impls, a \in LineAreas, split \in SUBSET Edges :
          New(which, a, split)

\* The caller sets a palette symbol before set_lines ("this function should
\* be called last")
LinesSetSymbol ==
    /\ pc = "built"
    /\ \E field \in SetterFields : set_symbol(field, CustomGlyph)

NextLines ==
    \/ LinesNew
    \/ LinesSetSymbol
    \/ set_lines
    \/ set_lns

SpecLines == InitLines /\ [][NextLines]_vars

---------------------------------------------------------------------------
(* The render pass of TuiGradientblock (lib.rs) on a ratatui Buffer.       *)
(* A cell is its symbol, its foreground colour and, as history, the layer  *)
(* that wrote it last.  Every glyph and title character takes one column.  *)
(* The buffer starts at the origin and is one column wider and one row     *)
(* higher than the largest area; set_line clips at its right edge, and no  *)
(* write of the pass falls below its last row.                             *)
(* The pass is a sequence of steps, each a call that main or one of its    *)
(* loops makes; the buffer after a step is given cell by cell from the     *)
(* cell as the steps before left it.                                       *)

BufWidth == MaxOrigin + MaxWidth + 1
BufHeight == MaxOrigin + MaxHeight + 1
BufCells == (0..(BufWidth - 1)) \X (0..(BufHeight - 1))

\* Style::default(): no foreground, the cell keeps the one it has; in a
\* cell, Color::Reset
NoColor == <<>>

\* Cell::default()
EmptyCell == [symbol |-> " ", fg |-> NoColor, layer |-> "none"]

EmptyBuffer == [c \in BufCells |-> EmptyCell]

\* Span::raw of every character; Line::from(String) shows the same cells
raw_spans(txt) == [i \in 1..Len(txt) |-> [content |-> txt[i], fg |-> NoColor]]

\* Cell::set_symbol, Cell::set_style of the span (taken once) on a cell
set_cell(cell, span, layer) ==
    CHOOSE new \in {[symbol |-> s.content,
                     fg |-> IF s.fg = NoColor THEN cell.fg ELSE s.fg,
                     layer |-> layer] : s \in {span}} : TRUE

\* The columns Buffer::set_line(x, y, line, max_width) writes
line_columns(x, len, max_width) ==
    Min(len, Min(max_width, saturating_sub(BufWidth, x)))

\* Buffer::set_line(x, y, line, max_width): which character of the line
\* lands on cell c, 0 if none
line_index(x, y, len, max_width, c) ==
    IF c[2] = y /\ c[1] >= x /\ c[1] < x + line_columns(x, len, max_width)
    THEN c[1] - x + 1
    ELSE 0

\* for (i, ln) in spans.iter().enumerate() { buf.set_span(x, y + i, ln, 1) }:
\* which span lands on cell c, 0 if none
vertical_index(x, y, len, c) ==
    IF c[1] = x /\ c[2] >= y /\ c[2] < y + len THEN c[2] - y + 1 ELSE 0

\* Self::create_gradient_text(&text, gradient.0, gradient.1) if there is a
\* gradient, the plain text otherwise
used_ln(txt, uses_gradient, gradient) ==
    IF uses_gradient
    THEN create_gradient_text_lib(txt, unwrap(gradient).colors,
                                  unwrap(gradient).factor)
    ELSE [panic |-> FALSE, spans |-> raw_spans(txt)]

\* render_top_ln ... render_top_vertical_right_ln panic when the gradient
\* text does
render_ln_panic(seg) ==
    IF used_ln(seg.segment_text, seg.should_use_gradient, seg.gradient).panic
    THEN ERROR_MESSAGE
    ELSE None

\* Every cell of the segment gets the first glyph of its text
render_ln_first_glyph(seg, a, c, below) ==
    LET len == Len(seg.segment_text)
        i == IF seg.is_vertical
             THEN vertical_index(seg.x, seg.y, len, c)
             ELSE line_index(seg.x, seg.y, len, a.width, c)
    IN IF i = 0 THEN below
       ELSE set_cell(below,
                     used_ln(seg.segment_text, seg.should_use_gradient,
                             seg.gradient).spans[1],
                     "border")

\* render_top_ln ... render_top_vertical_right_ln: horizontal segments by
\* set_line with max width area.width, vertical ones cell by cell.  The
\* cell c after the call, `below` being the cell before it.
render_ln(seg, a, c, below) ==
    LET len == Len(seg.segment_text)
        i == IF seg.is_vertical
             THEN vertical_index(seg.x, seg.y, len, c)
             ELSE line_index(seg.x, seg.y, len, a.width, c)
    IN IF i = 0 THEN below
       ELSE set_cell(below,
                     used_ln(seg.segment_text, seg.should_use_gradient,
                             seg.gradient).spans[i],
                     "border")

\* The order in which render_block goes through the segments
render_order ==
    <<"top_ln", "bottom_ln", "left_ln", "right_ln",
      "top_horizontal_left_ln", "top_horizontal_right_ln",
      "bottom_vertical_left_ln", "bottom_vertical_right_ln",
      "bottom_horizontal_left_ln", "bottom_horizontal_right_ln",
      "top_vertical_left_ln", "top_vertical_right_ln">>

TitleAlignments == {"LeftAligned", "RightAligned", "Centered"}

\* The x of a title, and whether computing it overflows: area.left() + 1,
\* (area.right() - 1).saturating_sub(len), (area.right() / 2)
\* .saturating_sub(len / 2)
title_x_overflows(a, alignment) ==
    alignment = "RightAligned" /\ u16_sub_overflows(right(a), 1)

title_x(a, alignment, len) ==
    CASE alignment = "LeftAligned" -> left(a) + 1
      [] alignment = "RightAligned" ->
            saturating_sub(u16_wrapping_sub(right(a), 1), len)
      [] OTHER -> saturating_sub(right(a) \div 2, len \div 2)

\* The row of the titles: area.top() for the top ones, area.bottom() - 1
\* for the bottom ones
title_y_overflows(a, position) ==
    position = "bottom" /\ u16_sub_overflows(bottom(a), 1)

title_y(a, position) ==
    IF position = "bottom" THEN u16_wrapping_sub(bottom(a), 1) ELSE top(a)

\* One round of the loop of render_top_titles and render_bottom_titles: the
\* line first (it may panic), then the position, then set_line
render_title_panic(title, position, a, build) ==
    IF used_ln(title.text, title.gradient # NoGradient, title.gradient).panic
    THEN ERROR_MESSAGE
    ELSE IF build = "debug" /\ (\/ title_x_overflows(a, title.alignment)
                               \/ title_y_overflows(a, position))
    THEN SubtractOverflow
    ELSE None

render_title(title, position, a, c, below) ==
    LET len == Len(title.text)
        i == line_index(title_x(a, title.alignment, len),
                        title_y(a, position), len, len, c)
    IN IF i = 0 THEN below
       ELSE set_cell(below,
                     used_ln(title.text, title.gradient # NoGradient,
                             title.gradient).spans[i],
                     "title")

\* Block::inner with Borders::ALL
inner(a) ==
    [x |-> Min(a.x + 1, right(a)), y |-> Min(a.y + 1, bottom(a)),
     width |-> saturating_sub(a.width, 2),
     height |-> saturating_sub(a.height, 2)]

\* Block::default().borders(Borders::ALL) drawn on a: the plain glyph of a
\* cell of the perimeter
block_border_glyph(a, c) ==
    LET l == c[1] = left(a)
        r == c[1] = right(a) - 1
        t == c[2] = top(a)
        d == c[2] = bottom(a) - 1
    IN CASE t /\ l -> "tl"
         [] t /\ r -> "tr"
         [] d /\ l -> "bl"
         [] d /\ r -> "br"
         [] t \/ d -> "h"
         [] OTHER -> "v"

InRect(a, c) ==
    /\ c[1] >= left(a) /\ c[1] < right(a)
    /\ c[2] >= top(a) /\ c[2] < bottom(a)

\* The fill text: (fill_string + ' ') repeated area.width * string.len()
\* times
fill_text(string, a) ==
    LET with_space == string \o <<" ">>
        count == a.width * Len(with_space)
    IN [i \in 1..(count * Len(with_space)) |->
          with_space[((i - 1) % Len(with_space)) + 1]]

\* Paragraph with Wrap { trim: true } for a fill string of one character:
\* the words a row of the inner area holds
words_per_row(a) == (inner(a).width + 1) \div 2

\* The position in the fill text of the character shown in cell c of the
\* inner area, 0 if the paragraph shows none there.  `centered` is
\* Paragraph::centered, which the gradient branch calls.
fill_text_position(a, string, c, centered) ==
    LET inr == inner(a)
        per == words_per_row(a)
        words == a.width * (Len(string) + 1)
        row == c[2] - inr.y
        shown == Min(per, words - row * per)
        row_width == 2 * shown - 1
        offset == IF centered THEN (inr.width - row_width) \div 2 ELSE 0
        col == c[1] - inr.x - offset
    IN IF per > 0 /\ InRect(inr, c) /\ shown > 0 /\ col >= 0 /\ col < row_width
       THEN 2 * row * per + col + 1
       ELSE 0

\* TuiGradientblock::render_fill panics when the gradient text of the fill
\* does
render_fill_panic(fl, a) ==
    IF used_ln(fill_text(unwrap(fl.fill_string), a), fl.gradient # NoGradient,
               fl.gradient).panic
    THEN ERROR_MESSAGE
    ELSE None

\* TuiGradientblock::render_fill for a fill string of one narrow character:
\* the Paragraph draws its Block on the perimeter of the area and the wrapped
\* text inside.  The cell c after the call, `below` being the cell before.
render_fill(fl, a, c, below) ==
    IF ~InRect(a, c) THEN below
    ELSE IF ~InRect(inner(a), c)
    THEN set_cell(below, [content |-> block_border_glyph(a, c),
                          fg |-> NoColor], "fill")
    ELSE LET centered == fl.gradient # NoGradient
             i == fill_text_position(a, unwrap(fl.fill_string), c, centered)
         IN IF i = 0 THEN below
            ELSE set_cell(below,
                          used_ln(fill_text(unwrap(fl.fill_string), a),
                                  centered, fl.gradient).spans[i],
                          "fill")

\* The pass with the fill painted after the border and the titles
main_order_fill_last == <<"render_block", "render_top_titles",
                          "render_bottom_titles", "render_fill">>

\* TuiGradientblock::main: the calls it makes, in order
main_order == <<"render_fill", "render_block", "render_top_titles",
                "render_bottom_titles">>

---------------------------------------------------------------------------
(* Segment synthesis: the claims, checked under SpecLines *)

First(q) == q[1]
Last(q) == q[Len(q)]

Count(ch, q) == Cardinality({i \in 1..Len(q) : q[i] = ch})

SegText(s) == border_segments[s].segment_text

Lined == pc = "lined"

\* C4: for an unsplit block, after set_lines every full segment's text has
\* exactly as many characters as its edge spans (area.width for top and
\* bottom, area.height for left and right) when that span is at least 4,
\* and starts and ends with the two corner glyphs of the edge.
C4_FullSegmentSpansEdge ==
    (Lined /\ split_segments = {}) =>
        LET g == resolved_symbols(border_symbols)
            spans(s, L, c1, c2) ==
                /\ Len(SegText(s)) = L
                /\ First(SegText(s)) = c1
                /\ Last(SegText(s)) = c2
        IN /\ area.width >= 4 =>
                /\ spans("top_ln", area.width, g.top_left, g.top_right)
                /\ spans("bottom_ln", area.width, g.bottom_left,
                         g.bottom_right)
           /\ area.height >= 4 =>
                /\ spans("left_ln", area.height, g.top_left, g.bottom_left)
                /\ spans("right_ln", area.height, g.top_right,
                         g.bottom_right)

\* The two halves of an edge, first (left or top) and second, the span of
\* the edge, the glyphs of the halves and whether the edge is vertical
HalvesOf(e) ==
    LET g == resolved_symbols(border_symbols)
    IN CASE e = "TOP" ->
              [first |-> "top_horizontal_left_ln",
               second |-> "top_horizontal_right_ln",
               span |-> area.width, vertical |-> FALSE,
               center |-> g.top_center,
               others |-> {g.top_left, g.top_right, g.top_horizontal_left,
                           g.top_horizontal_right}]
         [] e = "BOTTOM" ->
              [first |-> "bottom_horizontal_left_ln",
               second |-> "bottom_horizontal_right_ln",
               span |-> area.width, vertical |-> FALSE,
               center |-> g.bottom_center,
               others |-> {g.bottom_left, g.bottom_right,
                           g.bottom_horizontal_left,
                           g.bottom_horizontal_right}]
         [] e = "LEFT" ->
              [first |-> "top_vertical_left_ln",
               second |-> "bottom_vertical_left_ln",
               span |-> area.height, vertical |-> TRUE,
               center |-> g.left_center,
               others |-> {g.top_left, g.bottom_left, g.top_vertical_left,
                           g.bottom_vertical_left}]
         [] OTHER ->
              [first |-> "top_vertical_right_ln",
               second |-> "bottom_vertical_right_ln",
               span |-> area.height, vertical |-> TRUE,
               center |-> g.right_center,
               others |-> {g.top_right, g.bottom_right, g.top_vertical_right,
                           g.bottom_vertical_right}]

\* C5: for a split edge of span L, at any origin, the lengths of the two
\* halves sum to L, the second half starts on the cell right after the
\* first half's last cell, and the centre glyph (where the palette makes
\* it distinguishable) appears exactly once, as the end of the first half.
C5_SplitCoverage ==
    Lined =>
        \A e \in split_segments :
            LET hv == HalvesOf(e)
                a == border_segments[hv.first]
                b == border_segments[hv.second]
                la == Len(a.segment_text)
            IN /\ la + Len(b.segment_text) = hv.span
               /\ IF hv.vertical
                  THEN b.x = a.x /\ b.y = a.y + la
                  ELSE b.y = a.y /\ b.x = a.x + la
               /\ hv.center \notin hv.others =>
                    /\ Count(hv.center, a.segment_text \o b.segment_text) = 1
                    /\ Last(a.segment_text) = hv.center

FullOf(e) == CASE e = "TOP" -> "top_ln"
               [] e = "BOTTOM" -> "bottom_ln"
               [] e = "LEFT" -> "left_ln"
               [] OTHER -> "right_ln"

Rendered(s) == border_segments[s].should_be_rendered

\* C6: after set_lines, for each edge: if the edge is selected in
\* split_segments its full segment is off and its two halves are on; if it
\* is not selected its full segment is on and its two halves are off.
C6_SplitExclusive ==
    Lined =>
        \A e \in Edges :
            LET hv == HalvesOf(e)
            IN IF e \in split_segments
               THEN /\ ~Rendered(FullOf(e))
                    /\ Rendered(hv.first) /\ Rendered(hv.second)
               ELSE /\ Rendered(FullOf(e))
                    /\ ~Rendered(hv.first) /\ ~Rendered(hv.second)

\* C9: for every area, degenerate ones included, constructing the block and
\* set_lines never panic, and the anchors that subtract one from the right
\* and bottom edge are the saturating differences.
C9_NeverPanics ==
    /\ panic = None
    /\ pc \in {"built", "lined"} =>
          /\ border_segments["right_ln"].x = saturating_sub(right(area), 1)
          /\ border_segments["bottom_ln"].y = saturating_sub(bottom(area), 1)

\* C10: for a plain unsplit block of width 3, set_lines gives the top edge
\* exactly three characters: top-left corner, one horizontal glyph,
\* top-right corner.
C10_Width3TopEdge ==
    (Lined /\ split_segments = {} /\ area.width = 3
           /\ border_symbols = EmptySymbols) =>
        SegText("top_ln") = <<"tl", "h", "tr">>

\* The text of full segment s with fill runs of k1 and k2 glyphs on the two
\* sides of its centre glyph, in the glyphs of the palette
FullText(s, k1, k2) ==
    LET g == resolved_symbols(border_symbols)
    IN CASE s = "top_ln" ->
              create_segment(g.top_left, g.top_horizontal_left, k1,
                             g.top_center, g.top_horizontal_right, k2,
                             g.top_right)
         [] s = "bottom_ln" ->
              create_segment(g.bottom_left, g.bottom_horizontal_left, k1,
                             g.bottom_center, g.bottom_horizontal_right, k2,
                             g.bottom_right)
         [] s = "left_ln" ->
              create_segment(g.top_left, g.top_vertical_left, k1,
                             g.left_center, g.bottom_vertical_left, k2,
                             g.bottom_left)
         [] OTHER ->
              create_segment(g.top_right, g.top_vertical_right, k1,
                             g.right_center, g.bottom_vertical_right, k2,
                             g.bottom_right)

\* The number of cells the edge of full segment s spans
Span(s) == IF s \in {"top_ln", "bottom_ln"} THEN area.width ELSE area.height

\* C22: for every unsplit edge of span L >= 4, the two fill runs that
\* set_lines puts on either side of the centre glyph have repeat counts k1
\* and k2 that differ by at most 1.
C22_FillRunsBalanced ==
    (Lined /\ impl = "block" /\ split_segments = {}) =>
        \A s \in FullSegments :
            Span(s) >= 4 =>
                \E k1, k2 \in 0..Span(s) :
                    /\ k1 - k2 \in -1..1
                    /\ SegText(s) = FullText(s, k1, k2)

\* C23: after set_lines on an unsplit block, top and bottom are built with
\* the same pair of repeat counts and left and right with the same pair, so
\* that each pair of opposite segments has the same length and the same
\* centre position, for every area size.
C23_OppositeSegmentsAlike ==
    (Lined /\ split_segments = {}) =>
        /\ \E k1, k2 \in 0..(area.width + 1) :
              /\ SegText("top_ln") = FullText("top_ln", k1, k2)
              /\ SegText("bottom_ln") = FullText("bottom_ln", k1, k2)
        /\ \E k1, k2 \in 0..(area.height + 1) :
              /\ SegText("left_ln") = FullText("left_ln", k1, k2)
              /\ SegText("right_ln") = FullText("right_ln", k1, k2)

---------------------------------------------------------------------------
(* Specification of the render pass: a TuiGradientblock is built, given    *)
(* fill, gradients and titles, set_lines is called last, and main renders  *)
(* the block on an empty buffer with the block's own area.                 *)

RenderAreas ==
    Rects(Origins, {0}, (MaxWidth - 1)..MaxWidth, {MaxHeight - 1})

RenderSplits == {NONE, {"TOP", "LEFT"}, ALL}

\* The gradients the caller gives: one colour (not enough) or two
FewColors == <<Red>>
TwoColors == <<Red, Blue>>

FillString == <<"f">>

TitleText == <<"T", "U">>

InitRender ==
    /\ NothingYet
    /\ pc = "start"

RenderNew ==
    /\ pc = "start"
    /\ \E a \in RenderAreas, split \in RenderSplits : New("lib", a, split)

\* TuiGradientblock::fill_string
fill_string(string) ==
    /\ pc = "built"
    /\ fill.fill_string = NoValue
    /\ fill' = [fill EXCEPT !.fill_string = Some(string)]
    /\ UNCHANGED <<pc, impl, gradient_vars, area, split_segments,
                   border_symbols, border_segments, top_titles, bottom_titles,
                   buffer_vars, panic>>

\* TuiGradientblock::fill_gradient
fill_gradient(cols, f) ==
    /\ pc = "built"
    /\ fill.gradient = NoGradient
    /\ fill' = [fill EXCEPT !.gradient = SomeGradient(cols, f)]
    /\ UNCHANGED <<pc, impl, gradient_vars, area, split_segments,
                   border_symbols, border_segments, top_titles, bottom_titles,
                   buffer_vars, panic>>

\* TuiGradientblock::set_gradients(vec![(segment, colors, factor)])
set_gradients(segment, cols, f) ==
    /\ pc = "built"
    /\ ~border_segments[segment].should_use_gradient
    /\ border_segments' =
          [border_segments EXCEPT
              ![segment].gradient = SomeGradient(cols, f),
              ![segment].should_use_gradient = TRUE]
    /\ UNCHANGED <<pc, impl, gradient_vars, area, split_segments,
                   border_symbols, fill, top_titles, bottom_titles,
                   buffer_vars, panic>>

\* TuiGradientblock::top_titles(vec![(title, align, colors)])
set_top_titles(title, align, gradient) ==
    /\ pc = "built"
    /\ top_titles = <<>>
    /\ top_titles' = Append(top_titles, [text |-> title, alignment |-> align,
                                         gradient |-> gradient])
    /\ UNCHANGED <<pc, impl, gradient_vars, area, split_segments,
                   border_symbols, border_segments, fill, bottom_titles,
                   buffer_vars, panic>>

\* TuiGradientblock::bottom_titles(vec![(title, align, colors)])
set_bottom_titles(title, align, gradient) ==
    /\ pc = "built"
    /\ bottom_titles = <<>>
    /\ bottom_titles' = Append(bottom_titles,
                               [text |-> title, alignment |-> align,
                                gradient |-> gradient])
    /\ UNCHANGED <<pc, impl, gradient_vars, area, split_segments,
                   border_symbols, border_segments, fill, top_titles,
                   buffer_vars, panic>>

\* The caller's choices of fill, gradients and titles
RenderSetters ==
    /\ pc = "built"
    /\ \/ fill_string(FillString)
       \/ \E cols \in {FewColors, TwoColors} : fill_gradient(cols, 1)
       \/ set_gradients("top_ln", TwoColors, 1)
       \/ set_gradients("right_ln", FewColors, 1)
       \/ \E align \in TitleAlignments :
                set_top_titles(TitleText, align, NoGradient)
       \/ \E g \in {NoGradient, SomeGradient(FewColors, 1)} :
                set_bottom_titles(TitleText, "RightAligned", g)

\* The builds whose passes can differ on the area: with overflow checks a
\* subtraction below zero panics, without them it wraps
BuildsOn(a) ==
    IF u16_sub_overflows(right(a), 1) \/ u16_sub_overflows(bottom(a), 1)
    THEN Builds
    ELSE {"release"}

\* How many steps a call of main makes: render_fill is one, render_block one
\* per segment of its list, the title loops one per title
steps_of(call) ==
    CASE call = "render_fill" -> 1
      [] call = "render_block" -> Len(render_order)
      [] call = "render_top_titles" -> Len(top_titles)
      [] OTHER -> Len(bottom_titles)

RECURSIVE step_from(_, _)
\* the k-th step counted from the j-th call of main: its call and its
\* number within the call
step_from(k, j) ==
    IF k <= steps_of(main_order[j])
    THEN [call |-> main_order[j], index |-> k]
    ELSE step_from(k - steps_of(main_order[j]), j + 1)

main_steps ==
    steps_of("render_fill") + steps_of("render_block")
    + steps_of("render_top_titles") + steps_of("render_bottom_titles")

\* render_block rendering the four full segments, marked for it or not
step_runs_full_segments(k) ==
    LET step == step_from(k, 1)
    IN CASE step.call = "render_fill" -> fill.fill_string # NoValue
         [] step.call = "render_block" ->
               \/ render_order[step.index] \in FullSegments
               \/ border_segments[render_order[step.index]]
                     .should_be_rendered
         [] OTHER -> TRUE

\* render_block rendering every segment, marked for it or not
step_runs_every_segment(k) ==
    LET step == step_from(k, 1)
    IN CASE step.call = "render_fill" -> fill.fill_string # NoValue
         [] OTHER -> TRUE

\* Whether the k-th step runs: main calls render_fill only if there is a
\* fill string, render_block renders only the segments marked for it
step_runs(k) ==
    LET step == step_from(k, 1)
    IN CASE step.call = "render_fill" -> fill.fill_string # NoValue
         [] step.call = "render_block" ->
               border_segments[render_order[step.index]].should_be_rendered
         [] OTHER -> TRUE

\* The panic of the k-th step, None if it has none
step_panic(k, build) ==
    LET step == step_from(k, 1)
    IN CASE step.call = "render_fill" -> render_fill_panic(fill, area)
         [] step.call = "render_block" ->
               render_ln_panic(border_segments[render_order[step.index]])
         [] step.call = "render_top_titles" ->
               render_title_panic(top_titles[step.index], "top", area, build)
         [] OTHER ->
               render_title_panic(bottom_titles[step.index], "bottom", area,
                                  build)

RECURSIVE first_panic(_, _)
\* the first step from the k-th on that panics, 0 if none does
first_panic(k, build) ==
    IF k > main_steps THEN 0
    ELSE IF step_runs(k) /\ step_panic(k, build) # None THEN k
    ELSE first_panic(k + 1, build)

RECURSIVE main(_, _)
\* TuiGradientblock::main on an empty buffer: the cell c after the first k
\* steps of the pass
main(c, k) ==
    IF k = 0 THEN EmptyBuffer[c]
    ELSE IF ~step_runs(k) THEN main(c, k - 1)
    ELSE LET step == step_from(k, 1)
         IN CASE step.call = "render_fill" ->
                    render_fill(fill, area, c, main(c, k - 1))
              [] step.call = "render_block" ->
                    render_ln(border_segments[render_order[step.index]],
                              area, c, main(c, k - 1))
              [] step.call = "render_top_titles" ->
                    render_title(top_titles[step.index], "top", area, c,
                                 main(c, k - 1))
              [] OTHER ->
                    render_title(bottom_titles[step.index], "bottom", area,
                                 c, main(c, k - 1))

\* Widget::render, which is TuiGradientblock::main(&area, buf), on an empty
\* buffer: the pass runs up to its first panic, if any
Main ==
    /\ pc = "lined"
    /\ impl = "lib"
    /\ \E build \in BuildsOn(area) :
       \E failed \in {first_panic(1, build)} :
       \E last \in {IF failed = 0 THEN main_steps ELSE failed - 1} :
          /\ buf_before' = EmptyBuffer
          /\ buf' = [c \in BufCells |-> main(c, last)]
          /\ IF failed = 0
             THEN pc' = "rendered" /\ UNCHANGED panic
             ELSE Panics(step_panic(failed, build))
    /\ UNCHANGED <<impl, gradient_vars, block_vars>>

NextRender ==
    \/ RenderNew
    \/ RenderSetters
    \/ set_lines
    \/ Main

SpecRender == InitRender /\ [][NextRender]_vars

---------------------------------------------------------------------------
(* The render pass: the claims, checked under SpecRender *)

\* main has been called
MainCalled == pc \in {"rendered", "dead"} /\ DOMAIN buf_before # {}

TooFew(gradient) == Len(unwrap(gradient).colors) < 2

\* A gradient the pass resolves has fewer than two colours: the fill's, an
\* enabled segment's or a title's
HitsInsufficientColors ==
    \/ /\ fill.fill_string # NoValue
       /\ fill.gradient # NoGradient
       /\ TooFew(fill.gradient)
    \/ \E s \in SegmentNames :
          /\ border_segments[s].should_be_rendered
          /\ border_segments[s].should_use_gradient
          /\ TooFew(border_segments[s].gradient)
    \/ \E i \in 1..Len(top_titles) :
          top_titles[i].gradient # NoGradient /\ TooFew(top_titles[i].gradient)
    \/ \E i \in 1..Len(bottom_titles) :
          /\ bottom_titles[i].gradient # NoGradient
          /\ TooFew(bottom_titles[i].gradient)

\* C2: if a render pass hits the insufficient-colours failure, the buffer
\* is left exactly as it was before the call: nothing the pass wrote earlier
\* stays.
C2_FailureLeavesBufferUntouched ==
    (MainCalled /\ panic = ERROR_MESSAGE) => buf = buf_before

\* C3 as the specification states it: the insufficient-colours failure
\* reaches the caller of the render call as a result it can continue from;
\* the thread of the caller is not ended by it.
C3_FailureIsRecoverable ==
    (MainCalled /\ HitsInsufficientColors) => (pc # "dead" /\ panic = None)

\* C3 as amended: a render pass that resolves a gradient of fewer than two
\* colours ends in the panic with the error message; the pass never
\* completes with some default colouring in its place.
C3_FailureIsPanic ==
    (MainCalled /\ HitsInsufficientColors) =>
        (pc = "dead" /\ panic = ERROR_MESSAGE)

\* a pass has failed on the gradient of a bottom title, the last thing it
\* resolves
C3_Witness ==
    /\ MainCalled
    /\ pc = "dead"
    /\ panic = ERROR_MESSAGE
    /\ bottom_titles # <<>>
    /\ bottom_titles[1].gradient # NoGradient
    /\ ~border_segments["right_ln"].should_use_gradient
    /\ fill.gradient = NoGradient

\* C15: the insufficient-colours failure is raised when, and only when, a
\* render pass resolves a gradient of fewer than two colours: attaching
\* such a gradient to a segment, the fill or a title never fails, and a pass
\* that does not resolve it (its segment is disabled, or it is the fill's
\* and there is no fill string) completes.
C15_FailureOnlyWhenResolved ==
    /\ pc \in {"built", "lined"} => panic = None
    /\ MainCalled =>
          /\ panic = ERROR_MESSAGE <=> HitsInsufficientColors
          /\ pc = "rendered" <=> ~HitsInsufficientColors

\* a pass has completed on a block whose disabled right segment and whose
\* fill, without fill string, both have a gradient of one colour
C15_Witness ==
    /\ pc = "rendered"
    /\ ~border_segments["right_ln"].should_be_rendered
    /\ border_segments["right_ln"].should_use_gradient
    /\ TooFew(border_segments["right_ln"].gradient)
    /\ fill.fill_string = NoValue
    /\ fill.gradient # NoGradient
    /\ TooFew(fill.gradient)

\* C18: a centre-aligned title of text width t on an area with left edge x0
\* and width w is anchored at column x0 + w/2 - t/2 for every origin x0: the
\* pass writes the title's first character there.
C18_CenteredTitleAnchor ==
    pc = "rendered" =>
        \A i \in 1..Len(top_titles) :
            top_titles[i].alignment = "Centered" =>
                LET t == Len(top_titles[i].text)
                    x == area.x + (area.width \div 2) - (t \div 2)
                IN /\ buf[<<x, area.y>>].layer = "title"
                   /\ buf[<<x, area.y>>].symbol = top_titles[i].text[1]

\* The cells the titles are written to
TitleCells ==
    {c \in BufCells :
        \/ \E i \in 1..Len(top_titles) :
              line_index(title_x(area, top_titles[i].alignment,
                                 Len(top_titles[i].text)),
                         title_y(area, "top"), Len(top_titles[i].text),
                         Len(top_titles[i].text), c) # 0
        \/ \E i \in 1..Len(bottom_titles) :
              line_index(title_x(area, bottom_titles[i].alignment,
                                 Len(bottom_titles[i].text)),
                         title_y(area, "bottom"), Len(bottom_titles[i].text),
                         Len(bottom_titles[i].text), c) # 0}

\* The cells the enabled border segments are written to
BorderCells ==
    {c \in BufCells :
        \E s \in SegmentNames :
            LET seg == border_segments[s]
            IN /\ seg.should_be_rendered
               /\ IF seg.is_vertical
                  THEN vertical_index(seg.x, seg.y, Len(seg.segment_text),
                                      c) # 0
                  ELSE line_index(seg.x, seg.y, Len(seg.segment_text),
                                  area.width, c) # 0}

\* The cells the fill is written to
FillCells ==
    IF fill.fill_string = NoValue THEN {}
    ELSE {c \in BufCells :
            /\ InRect(area, c)
            /\ \/ ~InRect(inner(area), c)
               \/ fill_text_position(area, unwrap(fill.fill_string), c,
                                     fill.gradient # NoGradient) # 0}

\* Which span of segment s lands on cell c, 0 if none
SpanOn(s, c) ==
    LET seg == border_segments[s]
    IN IF seg.is_vertical
       THEN vertical_index(seg.x, seg.y, Len(seg.segment_text), c)
       ELSE line_index(seg.x, seg.y, Len(seg.segment_text), area.width, c)

\* The spans segment s is drawn with
SpansOf(s) ==
    used_ln(border_segments[s].segment_text,
            border_segments[s].should_use_gradient,
            border_segments[s].gradient).spans

\* C24: a render pass writes no buffer cell on behalf of a border segment
\* whose should_be_rendered is false, whatever the segment's text or
\* gradient: the glyph of a cell the border wrote last is that of an enabled
\* segment on the cell, and the cell has no colour that only a disabled
\* segment would have given it.
C24_DisabledSegmentsUnwritten ==
    pc = "rendered" =>
        \A c \in BufCells :
            buf[c].layer = "border" =>
                LET writers == {s \in SegmentNames :
                                   Rendered(s) /\ SpanOn(s, c) # 0}
                IN /\ \E s \in writers :
                        buf[c].symbol = SpansOf(s)[SpanOn(s, c)].content
                   /\ buf[c].fg # NoColor =>
                        \E s \in writers :
                            buf[c].fg = SpansOf(s)[SpanOn(s, c)].fg

\* a pass is over on a block whose top segment is disabled and has a text
\* and a gradient of two colours: the top-left cell is the border's and has
\* no colour
C24_Witness ==
    /\ pc = "rendered"
    /\ ~Rendered("top_ln")
    /\ border_segments["top_ln"].should_use_gradient
    /\ SpanOn("top_ln", <<area.x, area.y>>) = 1
    /\ SpansOf("top_ln")[1].fg = Red
    /\ buf[<<area.x, area.y>>].layer = "border"
    /\ buf[<<area.x, area.y>>].fg = NoColor

\* C7: a render pass writes the fill first, then the border segments, then
\* the titles: after it, a cell a title covers holds the title's content,
\* any other cell a border segment covers holds the border's, and the fill
\* shows only where neither covers.
C7_FillThenBorderThenTitles ==
    pc = "rendered" =>
        \A c \in BufCells :
            /\ buf[c].layer =
                  IF c \in TitleCells THEN "title"
                  ELSE IF c \in BorderCells THEN "border"
                  ELSE IF c \in FillCells THEN "fill"
                  ELSE "none"
            /\ c \in TitleCells =>
                  \E i \in 1..Len(TitleText) : buf[c].symbol = TitleText[i]

\* a pass is over in which fill, border and title all cover one cell, and
\* fill and border cover another
C7_Witness ==
    /\ pc = "rendered"
    /\ \E c \in TitleCells \cap BorderCells \cap FillCells :
          buf[c].layer = "title"
    /\ \E c \in (BorderCells \cap FillCells) \ TitleCells :
          buf[c].layer = "border"

---------------------------------------------------------------------------
(* Specification of the palette: a block of either iteration is built, its *)
(* palette is set by symbol setters and border_style, set_lines computes   *)
(* the segments, and the caller may assign the public field split_segments *)
(* and call set_lines again.                                               *)
(* "dtl" "dtr" "dbl" "dbr" "dh" "dv" are the DOUBLE glyphs of ratatui.     *)

\* BorderStyle: two of the regular styles and the one that sets nothing
Styles == {"Plain", "Double", "CustomBorderType"}

\* PLAIN and DOUBLE of ratatui::symbols::border
reg(style) ==
    IF style = "Double"
    THEN [top_left |-> "dtl", top_right |-> "dtr", bottom_left |-> "dbl",
          bottom_right |-> "dbr", horizontal_top |-> "dh",
          horizontal_bottom |-> "dh", vertical_left |-> "dv",
          vertical_right |-> "dv"]
    ELSE [top_left |-> "tl", top_right |-> "tr", bottom_left |-> "bl",
          bottom_right |-> "br", horizontal_top |-> "h",
          horizontal_bottom |-> "h", vertical_left |-> "v",
          vertical_right |-> "v"]

\* GradientBlock::set_border_style, TuiGradientblock::border_style: the
\* palette after the call.  CustomBorderType assigns nothing; a regular
\* style assigns the four corners, the four primary fills and the four
\* centres, and no other field.
set_border_style(bs, style) ==
    IF style = "CustomBorderType" THEN bs
    ELSE [bs EXCEPT
            !.top_left = reg(style).top_left,
            !.bottom_left = reg(style).bottom_left,
            !.top_right = reg(style).top_right,
            !.bottom_right = reg(style).bottom_right,
            !.top_horizontal = reg(style).horizontal_top,
            !.bottom_horizontal = reg(style).horizontal_bottom,
            !.left_vertical = reg(style).vertical_left,
            !.right_vertical = reg(style).vertical_right,
            !.bottom_center = reg(style).horizontal_bottom,
            !.top_center = reg(style).horizontal_top,
            !.right_center = reg(style).vertical_right,
            !.left_center = reg(style).vertical_left]

\* border_style(style)
border_style(style) ==
    /\ pc \in {"built", "lined"}
    /\ border_symbols' = set_border_style(border_symbols, style)
    /\ UNCHANGED <<pc, impl, gradient_vars, area, split_segments,
                   border_segments, fill, top_titles, bottom_titles,
                   buffer_vars, panic>>

\* block.split_segments = split: the field of GradientBlock is public (that
\* of TuiGradientblock is not).  set_lines is what the caller calls next.
set_split_segments(split) ==
    /\ pc = "lined"
    /\ impl = "block"
    /\ split # split_segments
    /\ split_segments' = split
    /\ pc' = "resplit"
    /\ UNCHANGED <<impl, gradient_vars, area, border_symbols, border_segments,
                   fill, top_titles, bottom_titles, buffer_vars, panic>>

PrimaryFills ==
    {"top_horizontal", "bottom_horizontal", "left_vertical", "right_vertical"}

\* The palette fields whose setters the caller uses here: the primary
\* fills and one that no style assigns
PaletteFields == PrimaryFills \cup {"top_horizontal_left"}

\* The glyph the caller passes to the setter of a field
SetterGlyph(field) ==
    CASE field = "top_horizontal" -> "a"
      [] field = "bottom_horizontal" -> "b"
      [] field = "left_vertical" -> "c"
      [] field = "right_vertical" -> "d"
      [] OTHER -> CustomGlyph

PaletteNew ==
    /\ pc = "start"
    /\ \E which \in Impls, a \in RenderAreas, split \in RenderSplits :
          New(which, a, split)

PaletteSetSymbol ==
    /\ pc = "built"
    /\ \E field \in PaletteFields : set_symbol(field, SetterGlyph(field))

PaletteBorderStyle ==
    /\ pc = "built"
    /\ \E style \in Styles : border_style(style)

PaletteSetSplit ==
    /\ pc = "lined"
    /\ \E split \in RenderSplits : set_split_segments(split)

NextPalette ==
    \/ PaletteNew
    \/ PaletteSetSymbol
    \/ PaletteBorderStyle
    \/ PaletteSetSplit
    \/ set_lines
    \/ set_lns

SpecPalette == InitLines /\ [][NextPalette]_vars

---------------------------------------------------------------------------
(* The palette: the claims, checked under SpecPalette *)

\* C11: whenever split_segments is empty, after set_lines all eight
\* half-segments are disabled, whatever the segments were before the call.
C11_UnsplitDisablesHalves ==
    (Lined /\ split_segments = {}) =>
        \A s \in HorizontalHalves \cup VerticalHalves : ~Rendered(s)

\* C13: selecting a border style fully replaces the palette: after
\* border_style(s) every palette field has the value it has after selecting
\* s on a freshly constructed block.
C13_StyleReplacesPalette ==
    [][\A s \in Styles :
          border_style(s) =>
              border_symbols' = set_border_style(EmptySymbols, s)]_vars

\* The primary fill of an edge and its two corner glyphs in PLAIN
PlainEdge(e) ==
    CASE e = "TOP" -> [fill |-> "top_horizontal", c1 |-> "tl", c2 |-> "tr"]
      [] e = "BOTTOM" ->
            [fill |-> "bottom_horizontal", c1 |-> "bl", c2 |-> "br"]
      [] e = "LEFT" -> [fill |-> "left_vertical", c1 |-> "tl", c2 |-> "bl"]
      [] OTHER -> [fill |-> "right_vertical", c1 |-> "tr", c2 |-> "br"]

\* Only the four primary fill characters are set in the palette
OnlyPrimaryFills ==
    \A f \in SymbolFields : border_symbols[f] # None <=> f \in PrimaryFills

\* C14: with only the four primary fill characters set, set_lines builds
\* every edge with the built-in plain corner glyphs at its ends and the
\* edge's own fill character everywhere between them, the centre included;
\* of a split edge the first half ends and the second half starts with the
\* fill character as centre.
C14_PrimaryFillsOnly ==
    (Lined /\ OnlyPrimaryFills) =>
        \A s \in SegmentNames :
            Rendered(s) =>
                LET e == PlainEdge(EdgeOf(s))
                    txt == SegText(s)
                    isFirst == s = HalvesOf(EdgeOf(s)).first
                    isSecond == s = HalvesOf(EdgeOf(s)).second
                IN /\ Len(txt) >= 2
                   /\ ~isSecond => First(txt) = e.c1
                   /\ ~isFirst => Last(txt) = e.c2
                   /\ isSecond => First(txt) = border_symbols[e.fill]
                   /\ isFirst => Last(txt) = border_symbols[e.fill]
                   /\ \A i \in 2..(Len(txt) - 1) :
                         txt[i] = border_symbols[e.fill]

\* set_lines has built an unsplit block and a block with split edges from a
\* palette of the four primary fills only
C14_Witness ==
    /\ Lined
    /\ OnlyPrimaryFills
    /\ impl = "block"
    /\ split_segments = {"TOP", "LEFT"}
    /\ Rendered("top_horizontal_left_ln")
    /\ SegText("top_horizontal_left_ln") = <<"tl", "a", "a">>
    /\ SegText("bottom_vertical_left_ln") = <<"c", "c", "bl">>

---------------------------------------------------------------------------
(* Specification of the life of the segment texts: a TuiGradientblock is   *)
(* built and given titles, its palette is changed before and after         *)
(* set_lines, and main renders it.                                         *)

\* A title wider than every area
LongTitle == [i \in 1..(MaxWidth + 1) |-> "L"]

\* top_left(symb), before or after set_lines
LifeSetSymbol ==
    /\ pc \in {"built", "lined"}
    /\ border_symbols["top_left"] # CustomGlyph
    /\ set_symbol("top_left", CustomGlyph)

\* border_style(BorderStyle::Double), before or after set_lines
LifeBorderStyle ==
    /\ pc \in {"built", "lined"}
    /\ border_symbols["top_horizontal"] = None
    /\ border_style("Double")

\* top_titles or bottom_titles with one title
LifeTitles ==
    /\ pc = "built"
    /\ \/ /\ bottom_titles = <<>>
          /\ \E align \in TitleAlignments :
                set_top_titles(LongTitle, align, NoGradient)
       \/ /\ top_titles = <<>>
          /\ set_bottom_titles(LongTitle, "RightAligned", NoGradient)

NextLifecycle ==
    \/ RenderNew
    \/ LifeSetSymbol
    \/ LifeBorderStyle
    \/ LifeTitles
    \/ set_lines
    \/ Main

SpecLifecycle == InitRender /\ [][NextLifecycle]_vars

---------------------------------------------------------------------------
(* The life of the segment texts and the title anchors: the claims,        *)
(* checked under SpecLifecycle                                             *)

\* The glyphs that enabled segments with text `txt(s)` put on cell c
GlyphsOn(c, txt(_)) ==
    {txt(s)[IF border_segments[s].is_vertical
            THEN vertical_index(border_segments[s].x, border_segments[s].y,
                                Len(SegText(s)), c)
            ELSE line_index(border_segments[s].x, border_segments[s].y,
                            Len(SegText(s)), area.width, c)] :
        s \in {q \in SegmentNames :
                  /\ Rendered(q)
                  /\ IF border_segments[q].is_vertical
                     THEN vertical_index(border_segments[q].x,
                                         border_segments[q].y,
                                         Len(SegText(q)), c) # 0
                     ELSE line_index(border_segments[q].x,
                                     border_segments[q].y, Len(SegText(q)),
                                     area.width, c) # 0}}

C19_TitleAnchorInsideArea ==
    MainCalled =>
        /\ panic # SubtractOverflow
        /\ \A i \in 1..Len(top_titles) :
              /\ ~title_x_overflows(area, top_titles[i].alignment)
              /\ title_x(area, top_titles[i].alignment,
                         Len(top_titles[i].text)) >= left(area)
        /\ \A i \in 1..Len(bottom_titles) :
              /\ ~title_x_overflows(area, bottom_titles[i].alignment)
              /\ ~title_y_overflows(area, "bottom")
              /\ title_x(area, bottom_titles[i].alignment,
                         Len(bottom_titles[i].text)) >= left(area)

---------------------------------------------------------------------------
(* The block whose four edges are rules (setter_functions.rs): each of     *)
(* border_segments.top, bottom, left and right has should_be_rendered and  *)
(* the symbol set of its rule: start, rep_1, center, rep_2, end.           *)

\* GradientBlock::new() of this block: a plain-style block, every edge
\* enabled
RuleNew ==
    /\ pc = "start"
    /\ impl' = "rule"
    /\ border_segments' =
          [e \in {"top", "bottom", "left", "right"} |->
              [should_be_rendered |-> TRUE,
               symbol_set |->
                  CASE e = "top" ->
                         [start |-> "tl", rep_1 |-> "h", center |-> "h",
                          rep_2 |-> "h", end |-> "tr"]
                    [] e = "bottom" ->
                         [start |-> "bl", rep_1 |-> "h", center |-> "h",
                          rep_2 |-> "h", end |-> "br"]
                    [] e = "left" ->
                         [start |-> "tl", rep_1 |-> "v", center |-> "v",
                          rep_2 |-> "v", end |-> "bl"]
                    [] OTHER ->
                         [start |-> "tr", rep_1 |-> "v", center |-> "v",
                          rep_2 |-> "v", end |-> "br"]]]
    /\ pc' = "built"
    /\ UNCHANGED <<gradient_vars, area, split_segments, border_symbols, fill,
                   top_titles, bottom_titles, buffer_vars, panic>>

\* The edges borders leaves out and corners blanks the glyphs of, on the
\* segments of the disabled edges themselves
borders_own_corners(self, bs, corners) ==
    LET Edge(e) == CASE e = "top" -> "TOP" [] e = "bottom" -> "BOTTOM"
                     [] e = "left" -> "LEFT" [] OTHER -> "RIGHT"
    IN [e \in DOMAIN self |->
           [should_be_rendered |-> self[e].should_be_rendered /\ Edge(e) \in bs,
            symbol_set |->
               IF corners /\ Edge(e) \notin bs
               THEN [self[e].symbol_set EXCEPT !.start = " ", !.end = " "]
               ELSE self[e].symbol_set]]

\* borders enabling the edges of its argument as well as disabling the
\* others
borders_sets_flags(self, bs, corners) ==
    LET blank_end(e) ==
            \/ e \in {"top", "bottom"} /\ "RIGHT" \notin bs
            \/ e \in {"left", "right"} /\ "BOTTOM" \notin bs
        blank_start(e) ==
            \/ e \in {"top", "bottom"} /\ "LEFT" \notin bs
            \/ e \in {"left", "right"} /\ "TOP" \notin bs
        Edge(e) == CASE e = "top" -> "TOP" [] e = "bottom" -> "BOTTOM"
                     [] e = "left" -> "LEFT" [] OTHER -> "RIGHT"
    IN [e \in DOMAIN self |->
           [should_be_rendered |-> Edge(e) \in bs,
            symbol_set |->
               [self[e].symbol_set EXCEPT
                   !.start = IF corners /\ blank_start(e) THEN " " ELSE @,
                   !.end = IF corners /\ blank_end(e) THEN " " ELSE @]]]

\* borders with an early exit for NONE that disables the four edges and
\* leaves the glyphs alone
borders_none_flags_only(self, bs, corners) ==
    LET blank_end(e) ==
            \/ e \in {"top", "bottom"} /\ "RIGHT" \notin bs
            \/ e \in {"left", "right"} /\ "BOTTOM" \notin bs
        blank_start(e) ==
            \/ e \in {"top", "bottom"} /\ "LEFT" \notin bs
            \/ e \in {"left", "right"} /\ "TOP" \notin bs
        Edge(e) == CASE e = "top" -> "TOP" [] e = "bottom" -> "BOTTOM"
                     [] e = "left" -> "LEFT" [] OTHER -> "RIGHT"
    IN IF bs = {}
       THEN [e \in DOMAIN self |->
                [self[e] EXCEPT !.should_be_rendered = FALSE]]
       ELSE [e \in DOMAIN self |->
                [should_be_rendered |->
                     self[e].should_be_rendered /\ Edge(e) \in bs,
                 symbol_set |->
                    [self[e].symbol_set EXCEPT
                        !.start = IF corners /\ blank_start(e) THEN " " ELSE @,
                        !.end = IF corners /\ blank_end(e) THEN " " ELSE @]]]

\* GradientBlock::borders: the segments after the call. An edge that is not
\* in bs is disabled and, with corners, the glyphs of its two corners on the
\* two adjacent segments are blanked; no edge is ever enabled. The last
\* test, bs = NONE, disables the four edges the tests before it have
\* disabled already.
borders(self, bs, corners) ==
    LET blank_end(e) ==
            \/ e \in {"top", "bottom"} /\ "RIGHT" \notin bs
            \/ e \in {"left", "right"} /\ "BOTTOM" \notin bs
        blank_start(e) ==
            \/ e \in {"top", "bottom"} /\ "LEFT" \notin bs
            \/ e \in {"left", "right"} /\ "TOP" \notin bs
        Edge(e) == CASE e = "top" -> "TOP" [] e = "bottom" -> "BOTTOM"
                     [] e = "left" -> "LEFT" [] OTHER -> "RIGHT"
    IN [e \in DOMAIN self |->
           [should_be_rendered |-> self[e].should_be_rendered /\ Edge(e) \in bs,
            symbol_set |->
               [self[e].symbol_set EXCEPT
                   !.start = IF corners /\ blank_start(e) THEN " " ELSE @,
                   !.end = IF corners /\ blank_end(e) THEN " " ELSE @]]]

\* GradientBlock::top_right: the segments after the call
top_right(self, symb) ==
    [self EXCEPT !["right"].symbol_set.start = symb,
                 !["top"].symbol_set.end = symb]

\* GradientBlock::top_horizontal_symbol: the segments after the call
top_horizontal_symbol(self, symb) ==
    [self EXCEPT !["top"].symbol_set.rep_1 = symb,
                 !["top"].symbol_set.rep_2 = symb]

\* GradientBlock::top_left: the segments after the call
top_left(self, symb) ==
    [self EXCEPT !["left"].symbol_set.start = symb,
                 !["top"].symbol_set.start = symb]

\* GradientBlock::bottom_right: the segments after the call
bottom_right(self, symb) ==
    [self EXCEPT !["bottom"].symbol_set.end = symb,
                 !["right"].symbol_set.end = symb]

\* GradientBlock::bottom_left: the segments after the call
bottom_left(self, symb) ==
    [self EXCEPT !["bottom"].symbol_set.start = symb,
                 !["left"].symbol_set.end = symb]

\* corners blanking the corner glyph of the horizontal segment only
corners_horizontal_only(self, cs) ==
    [self EXCEPT
        !["top"].symbol_set.end = IF "top_right" \notin cs THEN " " ELSE @,
        !["top"].symbol_set.start = IF "top_left" \notin cs THEN " " ELSE @,
        !["bottom"].symbol_set.start =
            IF "bottom_left" \notin cs THEN " " ELSE @,
        !["bottom"].symbol_set.end =
            IF "bottom_right" \notin cs THEN " " ELSE @]

\* GradientBlock::corners: the segments after the call. A corner that is not
\* in cs is blanked on its two segments; the last test, cs = NONE, blanks
\* the eight glyphs the tests before it have blanked already.
corners(self, cs) ==
    [self EXCEPT
        !["right"].symbol_set.start = IF "top_right" \notin cs THEN " " ELSE @,
        !["top"].symbol_set.end = IF "top_right" \notin cs THEN " " ELSE @,
        !["left"].symbol_set.start = IF "top_left" \notin cs THEN " " ELSE @,
        !["top"].symbol_set.start = IF "top_left" \notin cs THEN " " ELSE @,
        !["left"].symbol_set.end = IF "bottom_left" \notin cs THEN " " ELSE @,
        !["bottom"].symbol_set.start =
            IF "bottom_left" \notin cs THEN " " ELSE @,
        !["bottom"].symbol_set.end =
            IF "bottom_right" \notin cs THEN " " ELSE @,
        !["right"].symbol_set.end =
            IF "bottom_right" \notin cs THEN " " ELSE @]

\* A call of one of the symbol setters or of corners: top_left with a glyph
\* of the caller's, the other corner setters with the plain glyph of their
\* corner, which puts back what borders or corners has blanked
RuleSetters ==
    /\ pc = "built"
    /\ impl = "rule"
    /\ \/ border_segments' = top_left(border_segments, CustomGlyph)
       \/ border_segments' = top_right(border_segments, "tr")
       \/ border_segments' = bottom_right(border_segments, "br")
       \/ border_segments' = bottom_left(border_segments, "bl")
       \/ border_segments' = top_horizontal_symbol(border_segments, "a")
       \/ \E cs \in SUBSET Corners :
             border_segments' = corners(border_segments, cs)
    /\ border_segments' # border_segments
    /\ UNCHANGED <<pc, impl, gradient_vars, area, split_segments,
                   border_symbols, fill, top_titles, bottom_titles,
                   buffer_vars, panic>>

\* A call of borders(bs, corners)
RuleBorders(bs, with_corners) ==
    /\ pc = "built"
    /\ impl = "rule"
    /\ border_segments' = borders(border_segments, bs, with_corners)
    /\ UNCHANGED <<pc, impl, gradient_vars, area, split_segments,
                   border_symbols, fill, top_titles, bottom_titles,
                   buffer_vars, panic>>

NextBorders ==
    \/ RuleNew
    \/ RuleSetters
    \/ \E bs \in SUBSET Edges, with_corners \in BOOLEAN :
          RuleBorders(bs, with_corners)

SpecBorders == InitLines /\ [][NextBorders]_vars

\* C20: borders with every edge except RIGHT and with corners on sets the
\* right segment's should_be_rendered to false and blanks the end glyph (the
\* top-right and the bottom-right corner) of the top and the bottom segment,
\* and changes nothing else: the top, bottom and left segments keep their
\* should_be_rendered and every other glyph of the four segments is as it
\* was.
C20_BordersWithoutRight ==
    [][RuleBorders(Edges \ {"RIGHT"}, TRUE) =>
          /\ ~border_segments'["right"].should_be_rendered
          /\ border_segments'["top"].symbol_set.end = " "
          /\ border_segments'["bottom"].symbol_set.end = " "
          /\ \A e \in {"top", "bottom", "left"} :
                border_segments'[e].should_be_rendered =
                    border_segments[e].should_be_rendered
          /\ \A e \in DOMAIN border_segments :
                \A g \in DOMAIN border_segments[e].symbol_set :
                    (e \in {"top", "bottom"} /\ g = "end") \/
                    border_segments'[e].symbol_set[g] =
                        border_segments[e].symbol_set[g]]_vars

\* the call has acted on a block whose top fill was set before: the right
\* edge is off, the two right corners are blank, the other three edges are
\* on and the other glyphs are the block's
C20_Witness ==
    /\ pc = "built"
    /\ impl = "rule"
    /\ ~border_segments["right"].should_be_rendered
    /\ \A e \in {"top", "bottom", "left"} :
          border_segments[e].should_be_rendered
    /\ border_segments["top"].symbol_set =
          [start |-> "tl", rep_1 |-> "a", center |-> "h", rep_2 |-> "a",
           end |-> " "]
    /\ border_segments["bottom"].symbol_set =
          [start |-> "bl", rep_1 |-> "h", center |-> "h", rep_2 |-> "h",
           end |-> " "]
    /\ border_segments["right"].symbol_set.start = "tr"
    /\ border_segments["right"].symbol_set.end = "br"
    /\ border_segments["left"].symbol_set.start = "tl"

RECURSIVE DisableOneByOne(_, _, _)
\* The segments after one borders call per edge of order, each call with
\* every edge but that one
DisableOneByOne(self, order, with_corners) ==
    IF order = <<>> THEN self
    ELSE DisableOneByOne(borders(self, Edges \ {order[1]}, with_corners),
                         Tail(order), with_corners)

\* The orders the four edges can be disabled in
EdgeOrders == {o \in [1..4 -> Edges] : \A i, j \in 1..4 : o[i] = o[j] => i = j}

\* C21: one borders call with Borders::NONE leaves the block with the same
\* enable flags and glyphs as four borders calls that disable the four edges
\* one at a time, in any order, with the same corners argument.
C21_NoneIsEachInTurn ==
    impl = "rule" =>
        \A with_corners \in BOOLEAN, order \in EdgeOrders :
            borders(border_segments, NONE, with_corners) =
                DisableOneByOne(border_segments, order, with_corners)

\* the four edges are off and the eight corner glyphs blank, on a block whose
\* top fill was set before
C21_Witness ==
    /\ pc = "built"
    /\ impl = "rule"
    /\ \A e \in DOMAIN border_segments :
          /\ ~border_segments[e].should_be_rendered
          /\ border_segments[e].symbol_set.start = " "
          /\ border_segments[e].symbol_set.end = " "
    /\ border_segments["top"].symbol_set.rep_1 = "a"
    /\ border_segments = borders(border_segments, NONE, TRUE)

\* C29: borders never enables a segment: an edge's segment is enabled only
\* if every borders call made so far had the edge in its argument, so a
\* call leaves enabled exactly the segments that were enabled before it and
\* whose edge is in its argument.
C29_BordersNeverEnables ==
    [][/\ pc = "built" =>
            \A e \in DOMAIN border_segments :
                border_segments'[e].should_be_rendered =>
                    border_segments[e].should_be_rendered
       /\ \A bs \in SUBSET Edges, with_corners \in BOOLEAN :
            RuleBorders(bs, with_corners) =>
              /\ border_segments'["top"].should_be_rendered <=>
                    (border_segments["top"].should_be_rendered /\ "TOP" \in bs)
              /\ border_segments'["bottom"].should_be_rendered <=>
                    (border_segments["bottom"].should_be_rendered
                     /\ "BOTTOM" \in bs)
              /\ border_segments'["left"].should_be_rendered <=>
                    (border_segments["left"].should_be_rendered
                     /\ "LEFT" \in bs)
              /\ border_segments'["right"].should_be_rendered <=>
                    (border_segments["right"].should_be_rendered
                     /\ "RIGHT" \in bs)]_vars

\* the left and the top segment are off, the other two on, and no glyph is
\* blank: borders calls without corners have left LEFT and TOP out
C29_Witness ==
    /\ pc = "built"
    /\ impl = "rule"
    /\ ~border_segments["left"].should_be_rendered
    /\ ~border_segments["top"].should_be_rendered
    /\ border_segments["right"].should_be_rendered
    /\ border_segments["bottom"].should_be_rendered
    /\ \A e \in DOMAIN border_segments :
          border_segments[e].symbol_set.start # " "

\* C30: on a block built with each corner glyph stored identically in its
\* two segments, after any sequence of top_left, top_right, bottom_left,
\* bottom_right, corners and borders calls, two adjacent segments that are
\* both enabled agree on the glyph of the corner they share.
C30_EnabledNeighboursAgree ==
    impl = "rule" =>
        LET on(e) == border_segments[e].should_be_rendered
            glyph(e, g) == border_segments[e].symbol_set[g]
        IN /\ (on("top") /\ on("left")) =>
                glyph("top", "start") = glyph("left", "start")
           /\ (on("top") /\ on("right")) =>
                glyph("top", "end") = glyph("right", "start")
           /\ (on("bottom") /\ on("left")) =>
                glyph("bottom", "start") = glyph("left", "end")
           /\ (on("bottom") /\ on("right")) =>
                glyph("bottom", "end") = glyph("right", "end")

\* borders has disabled the right edge and blanked the top segment's right
\* corner, which the disabled right segment still has; the top and the left
\* segment are on and share the glyph top_left has set
C30_Witness ==
    /\ pc = "built"
    /\ impl = "rule"
    /\ ~border_segments["right"].should_be_rendered
    /\ border_segments["top"].symbol_set.end = " "
    /\ border_segments["right"].symbol_set.start = "tr"
    /\ border_segments["top"].should_be_rendered
    /\ border_segments["left"].should_be_rendered
    /\ border_segments["top"].symbol_set.start = CustomGlyph
    /\ border_segments["left"].symbol_set.start = CustomGlyph

---------------------------------------------------------------------------
(* The border pass of GradientBlock (gradient_block.rs): a block without   *)
(* fill string and titles is built, set_lines computes its segments, and   *)
(* main, which then is render_block alone, draws them on an empty buffer.  *)

\* The order in which GradientBlock::render_block goes through the segments
block_render_order ==
    <<"left_ln", "right_ln", "top_ln", "bottom_ln",
      "top_horizontal_left_ln", "top_horizontal_right_ln",
      "bottom_vertical_left_ln", "bottom_vertical_right_ln",
      "bottom_horizontal_left_ln", "bottom_horizontal_right_ln",
      "top_vertical_left_ln", "top_vertical_right_ln">>

\* check_gradient!: the gradient text if the segment uses a gradient, the
\* spans of its text otherwise
block_used_ln(seg) ==
    IF seg.should_use_gradient
    THEN create_gradient_text_block(seg.segment_text,
                                    seg.gradient.gradient_list,
                                    seg.gradient.factor)
    ELSE [panic |-> FALSE, spans |-> raw_spans(seg.segment_text)]

\* A horizontal segment drawn like a vertical one, span by span with a
\* width of 1 at the segment's anchor
block_render_ln_one_column(seg, c, below) ==
    LET len == Len(seg.segment_text)
        i == IF seg.is_vertical
             THEN vertical_index(seg.x, seg.y, len, c)
             ELSE line_index(seg.x, seg.y, len, 1, c)
    IN IF i = 0 THEN below
       ELSE set_cell(below, block_used_ln(seg).spans[i], "border")

\* handle_line_logic!: set_vertical_line! writes a vertical segment span by
\* span downwards from its anchor, set_line! a horizontal one by set_line
\* with the width of its text.  The cell c after the call, `below` being
\* the cell before it.
block_render_ln(seg, c, below) ==
    LET len == Len(seg.segment_text)
        i == IF seg.is_vertical
             THEN vertical_index(seg.x, seg.y, len, c)
             ELSE line_index(seg.x, seg.y, len, len, c)
    IN IF i = 0 THEN below
       ELSE set_cell(below, block_used_ln(seg).spans[i], "border")

RECURSIVE block_render_block(_, _)
\* GradientBlock::render_block on an empty buffer: the cell c after the
\* first k segments of the list, of which the enabled ones are drawn
block_render_block(c, k) ==
    IF k = 0 THEN EmptyBuffer[c]
    ELSE LET seg == border_segments[block_render_order[k]]
         IN IF seg.should_be_rendered
            THEN block_render_ln(seg, c, block_render_block(c, k - 1))
            ELSE block_render_block(c, k - 1)

\* The caller constructs a GradientBlock on an area that can hold a border
BlockNew ==
    /\ pc = "start"
    /\ \E a \in Rects(Origins, Origins, 3..MaxWidth, 2..MaxHeight),
          split \in RenderSplits :
          New("block", a, split)

\* Widget::render, which is GradientBlock::main(&area, buf), on an empty
\* buffer, for a block without fill string and titles: the pass draws the
\* segments up to the first whose gradient text panics, if any
BlockMain ==
    /\ pc = "lined"
    /\ impl = "block"
    /\ LET n == Len(block_render_order)
           panics(k) ==
               LET seg == border_segments[block_render_order[k]]
               IN seg.should_be_rendered /\ block_used_ln(seg).panic
           failing == {k \in 1..n : panics(k)}
       IN IF failing = {}
          THEN /\ buf' = [c \in BufCells |-> block_render_block(c, n)]
               /\ pc' = "rendered"
               /\ UNCHANGED panic
          ELSE /\ \E first \in failing :
                    /\ \A k \in failing : first <= k
                    /\ buf' = [c \in BufCells |->
                                  block_render_block(c, first - 1)]
               /\ Panics(ERROR_MESSAGE)
    /\ buf_before' = EmptyBuffer
    /\ UNCHANGED <<impl, gradient_vars, block_vars>>

NextBlockPass ==
    \/ BlockNew
    \/ LinesSetSymbol
    \/ set_lns
    \/ BlockMain

SpecBlockPass == InitLines /\ [][NextBlockPass]_vars

\* The cells of the perimeter of the area
Perimeter == {c \in BufCells : InRect(area, c) /\ ~InRect(inner(area), c)}

\* C25: for an unsplit block with its four edges enabled on an area of width
\* >= 4 and height >= 3 at any origin, the cells the border segments write
\* are exactly the perimeter cells of the area: every perimeter cell is
\* written and no cell off the perimeter or outside the area.
C25_BorderIsPerimeter ==
    (/\ pc = "rendered"
     /\ impl = "block"
     /\ split_segments = {}
     /\ \A s \in FullSegments : Rendered(s)
     /\ area.width >= 4
     /\ area.height >= 3) =>
        {c \in BufCells : buf[c].layer = "border"} = Perimeter

\* the pass is over on an unsplit block of width 5 and height 3 away from
\* the origin: its four corner cells have the corner glyphs
C25_Witness ==
    /\ pc = "rendered"
    /\ impl = "block"
    /\ split_segments = {}
    /\ area = [x |-> 1, y |-> 1, width |-> 5, height |-> 3]
    /\ border_symbols = EmptySymbols
    /\ buf[<<1, 1>>].symbol = "tl"
    /\ buf[<<5, 1>>].symbol = "tr"
    /\ buf[<<1, 3>>].symbol = "bl"
    /\ buf[<<5, 3>>].symbol = "br"
    /\ buf[<<3, 2>>].layer = "none"

---------------------------------------------------------------------------
(* Specification of the repeat count of render_fill: a block is built on   *)
(* an area of 16-bit width and height, given a fill string, and render_fill *)
(* computes how often it repeats the string for the Paragraph.             *)

\* The message of the panic of a u16 multiplication in a build with
\* overflow checks
MultiplyOverflow == "attempt to multiply with overflow"

\* a * b on u16 in a build without overflow checks
u16_wrapping_mul(a, b) == (a * b) % (U16Max + 1)

u16_mul_overflows(a, b) == a * b > U16Max

\* The widths and heights of the areas: small ones, the ones around 2^8
\* whose product leaves u16, and 2^15, whose square is 2^30
FillSizes == {1, 2, 3, 255, 256, 300, 32768}

FillAreas == Rects({0}, {0}, FillSizes, FillSizes)

\* The repeat count render_fill computes.  GradientBlock (block):
\* (area.height * area.width) as usize, the product taken in u16 before the
\* cast.  TuiGradientblock (lib): string.push(' ') and then
\* area.width as usize * string.len().
fill_repeat_count(which, a, string, build) ==
    IF which = "block"
    THEN IF build = "debug" /\ u16_mul_overflows(a.height, a.width)
         THEN [panic |-> MultiplyOverflow, count |-> 0]
         ELSE [panic |-> None, count |-> u16_wrapping_mul(a.height, a.width)]
    ELSE [panic |-> None, count |-> a.width * (Len(string) + 1)]

FillNew ==
    /\ pc = "start"
    /\ \E which \in Impls, a \in FillAreas : New(which, a, NONE)

\* main's call of render_fill, made when the block has a fill string, as far
\* as the text it hands to the Paragraph
RenderFillCount ==
    /\ pc = "built"
    /\ fill.fill_string # NoValue
    /\ \E build \in Builds :
          LET r == fill_repeat_count(impl, area, unwrap(fill.fill_string),
                                     build)
          IN IF r.panic # None
             THEN /\ Panics(r.panic)
                  /\ UNCHANGED repeat_count
             ELSE /\ repeat_count' = Some(r.count)
                  /\ pc' = "counted"
                  /\ UNCHANGED panic
    /\ UNCHANGED <<impl, text, colors, factor, gradient_text, interpolated,
                   block_vars, buffer_vars>>

NextFill ==
    \/ FillNew
    \/ fill_string(FillString)
    \/ RenderFillCount

SpecFill == InitLines /\ [][NextFill]_vars

\* C28: render_fill repeats the fill string area.width * area.height times,
\* the product taken without overflow for every 16-bit width and height
\* (a 300 by 300 area gives 90000), and the multiplication never panics.
C28_FillCountIsCellBudget ==
    /\ pc = "counted" => repeat_count = Some(area.width * area.height)
    /\ panic # MultiplyOverflow

===========================================================================
